---- MODULE Spec2Model ----
(***************************************************************************)
(* A model of liblz77ppm: the uncompressed stream (sliding window,         *)
(* look-ahead buffer and search tree), the length code (tinyhuff), the     *)
(* compressed bit stream (cstream) and the two codec entry points          *)
(* lz77_compress and lz77_decompress.                                      *)
(*                                                                         *)
(* Bytes are integers 0..255, bit strings are sequences over {0,1} written *)
(* most significant bit first, buffers are sequences holding the valid     *)
(* bytes [0, end) of the C array.  C offsets are 0-based; the sequences    *)
(* are 1-based, so C's p[i] is data[i + 1].                                 *)
(***************************************************************************)
EXTENDS Integers, Sequences, FiniteSets, TLC

(***************************************************************************)
(* Bounds of the model.                                                    *)
(***************************************************************************)
MaxLen == 5          \* longest input enumerated exhaustively
MaxW == 5            \* largest window size enumerated exhaustively
MaxCalls == 4        \* read calls of a descriptor that are counted

(***************************************************************************)
(* Program constants.                                                      *)
(***************************************************************************)
LZ77PPM_VERSION == 16
LZ77_TYPE_BITS == 1
LZ77_NEXT_BITS == 8
LZ77_SYMBOL_BITS == LZ77_TYPE_BITS + LZ77_NEXT_BITS
LZ77_MIN_WINDOW_SIZE == 4
LZ77_MIN_LOOKAHEAD_SIZE == 2
LZ77_TINYHUFF_MIN_CODE_BITS == 2
MAX_CODE_BITS == 6
ENCODING_TABLE_SIZE == 8
UNUSED == 65535
HeaderBytes == 12
MinAlloc == 1024
CStreamFdBufferSize == 1024
PeekBits == 16
ENOMEM == 12
EINVAL == 22

Min(a, b) == IF a < b THEN a ELSE b
Max(a, b) == IF a > b THEN a ELSE b

RECURSIVE Pow2(_)
Pow2(n) == IF n = 0 THEN 1 ELSE 2 * Pow2(n - 1)

(***************************************************************************)
(* Bit strings.                                                            *)
(***************************************************************************)
\* The n low-order bits of v, most significant first.
RECURSIVE BitsOf(_, _)
BitsOf(v, n) == IF n = 0 THEN << >> ELSE Append(BitsOf(v \div 2, n - 1), v % 2)

\* The unsigned value of a bit string.
RECURSIVE ValueOf(_)
ValueOf(bits) ==
    IF bits = << >> THEN 0
    ELSE 2 * ValueOf(SubSeq(bits, 1, Len(bits) - 1)) + bits[Len(bits)]

Zeros(n) == [i \in 1..n |-> 0]

Take(s, n) == SubSeq(s, 1, Min(n, Len(s)))
Drop(s, n) == SubSeq(s, n + 1, Len(s))

\* bit_get : bit number pos of a byte buffer.
bit_get(bytes, pos) == (bytes[(pos \div 8) + 1] \div Pow2(7 - (pos % 8))) % 2

\* The first nbytes bytes of a bit string left-aligned in a register
\* (htobe64 followed by a byte copy); missing low bits are zero.
BytesOfBits(bits, nbytes) ==
    [j \in 1..nbytes |->
        ValueOf([b \in 1..8 |->
            IF 8 * (j - 1) + b <= Len(bits) THEN bits[8 * (j - 1) + b] ELSE 0])]

\* htons followed by a byte copy: a uint16 as two bytes, high byte first.
Be16(v) == << (v \div 256) % 256, v % 256 >>

(***************************************************************************)
(* tinyhuff: the length code.                                              *)
(***************************************************************************)
RECURSIVE number_of_bits(_)
number_of_bits(value) ==
    IF value \div 2 = 0 THEN 1 ELSE 1 + number_of_bits(value \div 2)

\* encoding_table with every code six bits long.
encoding_table_fixed ==
    [i \in 0..7 |-> [code |-> i, nbits |-> MAX_CODE_BITS]]

encoding_table ==
    [i \in 0..7 |->
        CASE i = 0 -> [code |-> 0, nbits |-> 6]
          [] i = 1 -> [code |-> 3, nbits |-> 2]
          [] i = 2 -> [code |-> 2, nbits |-> 2]
          [] i = 3 -> [code |-> 1, nbits |-> 2]
          [] i = 4 -> [code |-> 1, nbits |-> 3]
          [] i = 5 -> [code |-> 1, nbits |-> 4]
          [] i = 6 -> [code |-> 1, nbits |-> 5]
          [] OTHER -> [code |-> 1, nbits |-> 6]]

decoding_table ==
    [i \in 0..63 |->
        CASE i = 0 -> [value |-> 0, nbits |-> 6]
          [] i = 1 -> [value |-> 6, nbits |-> 6]
          [] i \in 2..3 -> [value |-> 5, nbits |-> 5]
          [] i \in 4..7 -> [value |-> 4, nbits |-> 4]
          [] i \in 8..15 -> [value |-> 3, nbits |-> 3]
          [] i \in 16..31 -> [value |-> 2, nbits |-> 2]
          [] i \in 32..47 -> [value |-> 1, nbits |-> 2]
          [] OTHER -> [value |-> 0, nbits |-> 2]]

\* tinyhuff_init that gives no suffix bit to a largest value equal to
\* max_encoded_value.
tinyhuff_init_above(min_value, max_value) ==
    LET max_encoded_value == min_value + ENCODING_TABLE_SIZE - 2
        max_diff == max_value - max_encoded_value
    IN  [min_value |-> min_value,
         max_value |-> max_value,
         max_encoded_value |-> max_encoded_value,
         diff_nbits |-> IF max_diff > 0 THEN number_of_bits(max_diff) ELSE 0]

tinyhuff_init(min_value, max_value) ==
    LET max_encoded_value == min_value + ENCODING_TABLE_SIZE - 2
        max_diff == max_value - max_encoded_value
    IN  [min_value |-> min_value,
         max_value |-> max_value,
         max_encoded_value |-> max_encoded_value,
         diff_nbits |-> IF max_diff >= 0 THEN number_of_bits(max_diff) ELSE 0]

\* Returns the number of bits and the code as a uint16_t.
tinyhuff_encode(enc, value) ==
    LET idx0 == IF value # 0 THEN 1 + value - enc.min_value ELSE 0
        index == IF idx0 > ENCODING_TABLE_SIZE - 1 THEN ENCODING_TABLE_SIZE - 1 ELSE idx0
        e == encoding_table[index]
    IN  IF value >= enc.max_encoded_value
        THEN [nbits |-> e.nbits + enc.diff_nbits,
              code |-> (e.code * Pow2(enc.diff_nbits)
                        + (value - enc.max_encoded_value)) % 65536]
        ELSE [nbits |-> e.nbits, code |-> e.code]

tinyhuff_can_encode(enc, value) ==
    value = 0 \/ (enc.min_value <= value /\ value <= enc.max_value)

\* peeked : the bits peeked from the stream (at most 16), which the caller
\* left-aligns in a zeroed uint16_t.  Returns the number of bits to consume
\* (0 : not enough bits), the decoded value, and whether one of the
\* function's assertions (diff_nbits > 0, value <= max_value) is violated.
tinyhuff_decode(enc, peeked) ==
    LET peeked_length == Len(peeked)
        reg == peeked \o Zeros(PeekBits - peeked_length)
        index == ValueOf(SubSeq(reg, 1, MAX_CODE_BITS))
        d == decoding_table[index]
        v0 == IF index > 0 THEN d.value + enc.min_value ELSE d.value
        ext == v0 = enc.max_encoded_value
        diff == ValueOf(SubSeq(reg, MAX_CODE_BITS + 1,
                               Min(PeekBits, MAX_CODE_BITS + enc.diff_nbits)))
        v1 == IF ext THEN v0 + diff ELSE v0
        n1 == IF ext THEN d.nbits + enc.diff_nbits ELSE d.nbits
    IN  IF peeked_length < LZ77_TINYHUFF_MIN_CODE_BITS
          THEN [consume |-> 0, value |-> 0, failed |-> FALSE]
        ELSE IF peeked_length < d.nbits
          THEN [consume |-> 0, value |-> d.value, failed |-> FALSE]
        ELSE IF ext /\ peeked_length < d.nbits + enc.diff_nbits
          THEN [consume |-> 0, value |-> v0, failed |-> enc.diff_nbits = 0]
        ELSE [consume |-> n1, value |-> v1,
              failed |-> (ext /\ enc.diff_nbits = 0) \/ v1 > enc.max_value]

(***************************************************************************)
(* The search tree: an array of W + 1 records {parent, smaller, larger};   *)
(* slot W is the root.                                                     *)
(***************************************************************************)
UnusedNode == [parent |-> UNUSED, smaller |-> UNUSED, larger |-> UNUSED]

lz77_tree_init(tree, window_maxsize) ==
    [tree EXCEPT ![window_maxsize] = UnusedNode]

lz77_tree_contract_node(tree, old, new) ==
    LET parent == tree[old].parent
        t1 == IF new # UNUSED THEN [tree EXCEPT ![new].parent = parent] ELSE tree
        t2 == IF t1[parent].larger = old
              THEN [t1 EXCEPT ![parent].larger = new]
              ELSE [t1 EXCEPT ![parent].smaller = new]
    IN  [t2 EXCEPT ![old].parent = UNUSED]

\* lz77_tree_replace_node that leaves the link of the parent on the old node.
lz77_tree_replace_node_orphan(tree, old, new) ==
    LET t2 == [tree EXCEPT ![new] = tree[old]]
        t3 == IF t2[new].smaller # UNUSED
              THEN [t2 EXCEPT ![t2[new].smaller].parent = new] ELSE t2
        t4 == IF t3[new].larger # UNUSED
              THEN [t3 EXCEPT ![t3[new].larger].parent = new] ELSE t3
    IN  [t4 EXCEPT ![old].parent = UNUSED]

lz77_tree_replace_node(tree, old, new) ==
    LET parent == tree[old].parent
        t1 == IF parent = UNUSED THEN tree
              ELSE IF tree[parent].smaller = old
                   THEN [tree EXCEPT ![parent].smaller = new]
                   ELSE [tree EXCEPT ![parent].larger = new]
        t2 == [t1 EXCEPT ![new] = t1[old]]
        t3 == IF t2[new].smaller # UNUSED
              THEN [t2 EXCEPT ![t2[new].smaller].parent = new] ELSE t2
        t4 == IF t3[new].larger # UNUSED
              THEN [t3 EXCEPT ![t3[new].larger].parent = new] ELSE t3
    IN  [t4 EXCEPT ![old].parent = UNUSED]

RECURSIVE RightMost(_, _)
RightMost(tree, next) ==
    IF tree[next].larger # UNUSED THEN RightMost(tree, tree[next].larger) ELSE next

\* lz77_tree_find_next_node that stops at the smaller child.
lz77_tree_find_next_child(tree, index) == tree[index].smaller

lz77_tree_find_next_node(tree, index) == RightMost(tree, tree[index].smaller)

RECURSIVE lz77_tree_delete_node(_, _)
lz77_tree_delete_node(tree, index) ==
    IF tree[index].parent = UNUSED THEN tree
    ELSE IF tree[index].smaller # UNUSED /\ tree[index].larger # UNUSED
         THEN LET replacement == lz77_tree_find_next_node(tree, index)
              IN  lz77_tree_replace_node(lz77_tree_delete_node(tree, replacement),
                                         index, replacement)
    ELSE IF tree[index].smaller # UNUSED
         THEN lz77_tree_contract_node(tree, index, tree[index].smaller)
    ELSE lz77_tree_contract_node(tree, index, tree[index].larger)

\* C's p[idx] for a buffer whose valid bytes are data; a read outside the
\* valid bytes yields -1, which differs from every byte.
ByteAt(data, idx) == IF idx >= 0 /\ idx < Len(data) THEN data[idx + 1] ELSE -1

\* The inner comparison loop of lz77_find_and_add: the number of leading
\* bytes on which data[a ..] and data[b ..] agree, at most n.
\* The comparison loop that stops one byte before the end of the look-ahead.
RECURSIVE MatchFrom_short(_, _, _, _, _)
MatchFrom_short(data, a, b, n, i) ==
    IF i < n - 1 /\ ByteAt(data, a + i) = ByteAt(data, b + i)
    THEN MatchFrom_short(data, a, b, n, i + 1)
    ELSE i

RECURSIVE MatchFrom(_, _, _, _, _)
MatchFrom(data, a, b, n, i) ==
    IF i < n /\ ByteAt(data, a + i) = ByteAt(data, b + i)
    THEN MatchFrom(data, a, b, n, i + 1)
    ELSE i

\* The while (1) loop of lz77_find_and_add, one iteration per call.
RECURSIVE FindLoop(_, _, _, _, _, _)
FindLoop(u, tree, curr, test, longest, offset) ==
    LET W == u.window_maxsize
        begin == u.window % W
        k == IF test - begin < 0 THEN test - begin + W ELSE test - begin
        i == MatchFrom(u.data, u.lookahead, u.window + k, u.lookahead_currsize, 0)
        delta == ByteAt(u.data, u.lookahead + i) - ByteAt(u.data, u.window + k + i)
        longest1 == IF i > longest THEN i ELSE longest
        offset1 == IF i > longest THEN k ELSE offset
        islarger == delta > 0
        child == IF islarger THEN tree[test].larger ELSE tree[test].smaller
        tdel == IF tree[curr].parent # UNUSED
                THEN lz77_tree_delete_node(tree, curr) ELSE tree
        child2 == IF islarger THEN tdel[test].larger ELSE tdel[test].smaller
        attached == [tdel EXCEPT
                        ![test] = IF islarger THEN [@ EXCEPT !.larger = curr]
                                              ELSE [@ EXCEPT !.smaller = curr],
                        ![curr] = [parent |-> test, smaller |-> UNUSED,
                                   larger |-> UNUSED]]
    IN  IF test \notin 0..(W - 1)
        THEN [tree |-> tree, longest |-> longest, offset |-> offset, oob |-> TRUE]
        ELSE IF i > longest /\ i = u.lookahead_currsize
        THEN [tree |-> IF test # curr
                       THEN lz77_tree_replace_node(
                                lz77_tree_delete_node(tree, curr), test, curr)
                       ELSE tree,
              longest |-> i, offset |-> k, oob |-> FALSE]
        ELSE IF child = UNUSED
        THEN IF test = curr
             THEN [tree |-> tree, longest |-> longest1, offset |-> offset1,
                   oob |-> FALSE]
             ELSE IF child2 = UNUSED
                  THEN [tree |-> attached, longest |-> longest1,
                        offset |-> offset1, oob |-> FALSE]
                  ELSE FindLoop(u, tdel, curr, child2, longest1, offset1)
        ELSE FindLoop(u, tree, curr, child, longest1, offset1)

\* lz77_find_and_add that reports the tree slot of the match in place of its
\* offset from the start of the window.
lz77_find_and_add_slot(u, curr) ==
    LET r == FindLoop(u, u.tree, curr, u.tree[u.window_maxsize].larger, 0, 0)
    IN  [r EXCEPT !.offset = (r.offset + u.window) % u.window_maxsize]

\* lz77_find_and_add that compares the look-ahead with the root of the tree
\* only: the tree is updated as usual, the match reported is the root's.
lz77_find_and_add_root(u, curr) ==
    LET r == FindLoop(u, u.tree, curr, u.tree[u.window_maxsize].larger, 0, 0)
        k == (u.tree[u.window_maxsize].larger - u.window) % u.window_maxsize
    IN  [r EXCEPT !.longest = MatchFrom(u.data, u.lookahead, u.window + k,
                                        u.lookahead_currsize, 0),
                  !.offset = k]

lz77_find_and_add(u, curr) ==
    FindLoop(u, u.tree, curr, u.tree[u.window_maxsize].larger, 0, 0)

(***************************************************************************)
(* Rotation of the tree array when the data buffer is compacted.           *)
(***************************************************************************)
\* The inner while loop of rotate_tree_array for one start offset.
RECURSIVE RotateChain(_, _, _, _, _)
RotateChain(v, base, size, shift, i) ==
    IF i + shift < size
    THEN RotateChain([v EXCEPT ![base + i] = v[base + i + shift]],
                     base, size, shift, i + shift)
    ELSE [v |-> v, i |-> i]

\* The for loop of rotate_tree_array.
RECURSIVE RotateOffsets(_, _, _, _, _)
RotateOffsets(v, base, size, shift, offset) ==
    IF offset < shift
    THEN LET a == v[base + offset]
             r == RotateChain(v, base, size, shift, offset)
         IN  RotateOffsets([r.v EXCEPT ![base + r.i] = a],
                           base, size, shift, offset + 1)
    ELSE v

\* rotate_tree_array without the rotation of the tail of the array.
rotate_tree_array_head(v, base, size, shift) ==
    IF size <= 1 \/ shift % size = 0 THEN v
    ELSE RotateOffsets(v, base, size, shift, 0)

\* rotate_tree_array(v + base, size, shift)
RECURSIVE rotate_tree_array(_, _, _, _)
rotate_tree_array(v, base, size, shift) ==
    IF size <= 1 \/ shift % size = 0 THEN v
    ELSE rotate_tree_array(RotateOffsets(v, base, size, shift, 0),
                           base + size - shift, shift, shift - (size % shift))

ShiftIndex(j, size, shift) ==
    IF j - shift < 0 THEN size + j - shift ELSE j - shift

shift_tree_indices(v, size, shift) ==
    [i \in DOMAIN v |->
        [parent |-> IF v[i].parent # UNUSED /\ v[i].parent # size
                    THEN ShiftIndex(v[i].parent, size, shift) ELSE v[i].parent,
         smaller |-> IF v[i].smaller # UNUSED
                     THEN ShiftIndex(v[i].smaller, size, shift) ELSE v[i].smaller,
         larger |-> IF v[i].larger # UNUSED
                    THEN ShiftIndex(v[i].larger, size, shift) ELSE v[i].larger]]

(***************************************************************************)
(* Descriptors.  A readable descriptor is its content, the read position,  *)
(* the number of read calls made, the largest count one read returns and   *)
(* the number of the read call that fails (0 : none).  A writable          *)
(* descriptor is the bytes it has accepted, the number of write calls      *)
(* made, the largest count one write accepts and the failing call.         *)
(***************************************************************************)
NewReadFd(content, chunk, failat) ==
    [content |-> content, pos |-> 0, calls |-> 0, chunk |-> chunk, failat |-> failat]

\* read(fd, buf, max_count): n = -1 on error, else the bytes delivered.
\* The calls are counted up to MaxCalls, which is beyond every failing call.
ReadCall(fd, max_count) ==
    LET n == Min(Min(fd.chunk, max_count), Len(fd.content) - fd.pos)
        calls == Min(fd.calls + 1, MaxCalls)
    IN  IF fd.failat = fd.calls + 1
        THEN [n |-> -1, bytes |-> << >>, fd |-> [fd EXCEPT !.calls = calls]]
        ELSE [n |-> n,
              bytes |-> SubSeq(fd.content, fd.pos + 1, fd.pos + n),
              fd |-> [fd EXCEPT !.calls = calls, !.pos = @ + n]]

NewWriteFd(chunk, failat) ==
    [written |-> << >>, calls |-> 0, chunk |-> chunk, failat |-> failat]

\* write(fd, buf, count): n = -1 on error, else the number of bytes accepted.
WriteCall(fd, buf, count) ==
    LET n == Min(fd.chunk, count)
    IN  IF fd.failat = fd.calls + 1
        THEN [n |-> -1, fd |-> [fd EXCEPT !.calls = @ + 1]]
        ELSE [n |-> n,
              fd |-> [fd EXCEPT !.calls = @ + 1,
                                !.written = @ \o SubSeq(buf, 1, n)]]

\* The flush loop shared by cstream_write, cstream_close, ustream_close and
\* ustream_save:
\*     while (writecount != count) {
\*         writecount = write(fd, data, count);
\*         if (writecount < 0) return -1;
\*         data += writecount; count -= writecount; }
\* buf holds the bytes from the data pointer on.
RECURSIVE FlushLoop(_, _, _, _)
FlushLoop(fd, buf, count, writecount) ==
    IF writecount = count THEN [ok |-> TRUE, fd |-> fd]
    ELSE LET w == WriteCall(fd, buf, count)
         IN  IF w.n < 0 THEN [ok |-> FALSE, fd |-> w.fd]
             ELSE FlushLoop(w.fd, Drop(buf, w.n), count - w.n, w.n)

(***************************************************************************)
(* The uncompressed stream.                                                *)
(***************************************************************************)
\* malloc'ed tree array of W + 1 slots, not yet initialised.
Uninit == [parent |-> -1, smaller |-> -1, larger |-> -1]
NewTree(window_size) == [i \in 0..window_size |-> Uninit]

NoEncoder == [min_value |-> 0, max_value |-> 0, max_encoded_value |-> 0,
              diff_nbits |-> 0]

\* The argument checks of lz77_ustream_from_memory (lines 49-62) and of
\* lz77_ustream_from_descriptor (lines 99-112): the stream is refused, NULL
\* with errno EINVAL, when one of them fails.
ArgsRefused(window_size, lookahead_size) ==
    \/ window_size < LZ77_MIN_WINDOW_SIZE
    \/ lookahead_size < LZ77_MIN_LOOKAHEAD_SIZE

lz77_ustream_from_memory(data, size, window_size, lookahead_size) ==
    [fd |-> -1, data |-> data, size |-> size, end |-> size,
     can_realloc |-> 0, is_input |-> 1,
     window |-> 0, window_maxsize |-> window_size, window_currsize |-> 0,
     window_nbits |-> number_of_bits(window_size - 1),
     lookahead |-> 0, lookahead_maxsize |-> lookahead_size,
     lookahead_currsize |-> 0,
     tree |-> NewTree(window_size), length_encoder |-> NoEncoder,
     processed_bytes |-> 0]

lz77_ustream_from_descriptor(fd, window_size, lookahead_size) ==
    [fd |-> fd, data |-> << >>, size |-> (window_size + lookahead_size) * 10,
     end |-> 0, can_realloc |-> 1, is_input |-> 1,
     window |-> 0, window_maxsize |-> window_size, window_currsize |-> 0,
     window_nbits |-> number_of_bits(window_size - 1),
     lookahead |-> 0, lookahead_maxsize |-> lookahead_size,
     lookahead_currsize |-> 0,
     tree |-> NewTree(window_size), length_encoder |-> NoEncoder,
     processed_bytes |-> 0]

\* size is the capacity of the caller's buffer; data holds the bytes written.
lz77_ustream_to_memory(size, can_realloc) ==
    [fd |-> -1, data |-> << >>, size |-> size, end |-> 0,
     can_realloc |-> can_realloc, is_input |-> 0,
     window |-> 0, window_maxsize |-> 0, window_currsize |-> 0,
     window_nbits |-> 0,
     lookahead |-> 0, lookahead_maxsize |-> 0, lookahead_currsize |-> 0,
     tree |-> << >>, length_encoder |-> NoEncoder,
     processed_bytes |-> 0]

lz77_ustream_to_descriptor(fd) ==
    [fd |-> fd, data |-> << >>, size |-> 0, end |-> 0,
     can_realloc |-> 1, is_input |-> 0,
     window |-> 0, window_maxsize |-> 0, window_currsize |-> 0,
     window_nbits |-> 0,
     lookahead |-> 0, lookahead_maxsize |-> 0, lookahead_currsize |-> 0,
     tree |-> << >>, length_encoder |-> NoEncoder,
     processed_bytes |-> 0]

\* min_match_length that leaves out the bits of the length code.
min_match_length_code(window_nbits) ==
    ((LZ77_TYPE_BITS + window_nbits) \div LZ77_SYMBOL_BITS) + 1

min_match_length(window_nbits) ==
    ((LZ77_TYPE_BITS + window_nbits + LZ77_TINYHUFF_MIN_CODE_BITS)
        \div LZ77_SYMBOL_BITS) + 1

\* ustream_open of an input stream; rfd is the descriptor read from.
ustream_open_input(u, rfd) ==
    LET r == ReadCall(rfd, u.size)
        filled == IF u.fd >= 0
                  THEN [u EXCEPT !.data = r.bytes, !.end = r.n,
                                 !.lookahead_currsize = Min(r.n, u.lookahead_maxsize)]
                  ELSE [u EXCEPT !.lookahead_currsize =
                                     Min(u.size, u.lookahead_maxsize)]
    IN  IF u.fd >= 0 /\ r.n < 0
        THEN [ret |-> -1, u |-> u, rfd |-> r.fd]
        ELSE [ret |-> 0,
              u |-> [filled EXCEPT
                        !.tree = lz77_tree_init(u.tree, u.window_maxsize),
                        !.length_encoder =
                            tinyhuff_init(min_match_length(u.window_nbits),
                                          u.lookahead_maxsize)],
              rfd |-> IF u.fd >= 0 THEN r.fd ELSE rfd]

\* ustream_open of an output stream; from is the opened compressed stream.
ustream_open_output(u, from) ==
    LET nbits == number_of_bits(from.window_maxsize - 1)
        sized == IF u.fd >= 0 THEN [u EXCEPT !.size = from.window_maxsize * 10]
                 ELSE u
    IN  [sized EXCEPT !.window_maxsize = from.window_maxsize,
                      !.window_nbits = nbits,
                      !.lookahead_maxsize = from.lookahead_maxsize,
                      !.length_encoder =
                          tinyhuff_init(min_match_length(nbits),
                                        from.lookahead_maxsize)]

\* ustream_close; wfd is the descriptor written to.
ustream_close(u, wfd) ==
    IF u.fd >= 0 /\ u.is_input = 0
    THEN LET f == FlushLoop(wfd, u.data, u.end, 0)
         IN  IF f.ok THEN [ret |-> 0, u |-> [u EXCEPT !.end = 0, !.data = << >>],
                           wfd |-> f.fd]
             ELSE [ret |-> -1, u |-> u, wfd |-> f.fd]
    ELSE [ret |-> 0, u |-> u, wfd |-> wfd]

\* SeedTree that does not hang the first position below the sentinel.
SeedTree_unlinked(tree, W) ==
    [i \in DOMAIN tree |->
        IF i = W THEN tree[W]
        ELSE IF i = 0 THEN [parent |-> W, smaller |-> UNUSED, larger |-> UNUSED]
        ELSE UnusedNode]

\* The tree after the first call of ustream_find_and_advance: slot 0 is the
\* right child of the root, every other slot is unlinked.
SeedTree(tree, W) ==
    [i \in DOMAIN tree |->
        IF i = W THEN [tree[W] EXCEPT !.larger = 0]
        ELSE IF i = 0 THEN [parent |-> W, smaller |-> UNUSED, larger |-> UNUSED]
        ELSE UnusedNode]

\* The refill that leaves the tree array as it is.
Refill_no_rotate(st) ==
    LET u == st.u
        W == u.window_maxsize
        lookah_size == u.end - u.lookahead
        data_size == W + lookah_size
        moved == SubSeq(u.data, u.window + 1, u.window + data_size)
        r == ReadCall(st.rfd, u.size - data_size)
    IN  IF r.n < 0
        THEN [u |-> [u EXCEPT !.data = moved \o Drop(u.data, data_size)],
              rfd |-> r.fd, err |-> TRUE, oob |-> st.oob]
        ELSE [u |-> [u EXCEPT !.data = moved \o r.bytes,
                              !.window = 0,
                              !.lookahead = W,
                              !.end = data_size + r.n,
                              !.lookahead_currsize =
                                  Min(lookah_size + r.n, u.lookahead_maxsize)],
              rfd |-> r.fd, err |-> FALSE, oob |-> st.oob]

\* The refill branch of ustream_find_and_advance: move the window and the
\* look-ahead to the start of the buffer, read, rotate the tree.
\* st.u.lookahead is already advanced.
Refill(st) ==
    LET u == st.u
        W == u.window_maxsize
        lookah_size == u.end - u.lookahead
        data_size == W + lookah_size
        moved == SubSeq(u.data, u.window + 1, u.window + data_size)
        r == ReadCall(st.rfd, u.size - data_size)
        x == u.window % W
        rotated == shift_tree_indices(rotate_tree_array(u.tree, 0, W, x), W, x)
    IN  IF r.n < 0
        THEN [u |-> [u EXCEPT !.data = moved \o Drop(u.data, data_size)],
              rfd |-> r.fd, err |-> TRUE, oob |-> st.oob]
        ELSE [u |-> [u EXCEPT !.data = moved \o r.bytes,
                              !.tree = rotated,
                              !.window = 0,
                              !.lookahead = W,
                              !.end = data_size + r.n,
                              !.lookahead_currsize =
                                  Min(lookah_size + r.n, u.lookahead_maxsize)],
              rfd |-> r.fd, err |-> FALSE, oob |-> st.oob]

\* Lines 352-355: all but the last position passed lose their tree node, the
\* slot of the position one past the new look-ahead start.
DropOldest(u, i, count) ==
    IF i < count - 1
    THEN [u EXCEPT !.tree = lz77_tree_delete_node(u.tree,
                                (u.lookahead + 1) % u.window_maxsize)]
    ELSE u

\* The update of the window that always grows it and never slides.
SlideWindow_grow(u) == [u EXCEPT !.window_currsize = @ + 1, !.lookahead = @ + 1]

\* Lines 357-370: the window grows up to its maximum size, then slides; the
\* look-ahead moves one byte on.
SlideWindow(u) ==
    IF u.window_currsize = u.window_maxsize
    THEN [u EXCEPT !.window = @ + 1, !.lookahead = @ + 1]
    ELSE [u EXCEPT !.window_currsize = @ + 1, !.lookahead = @ + 1]

\* The look-ahead that is never shrunk at the end of the data.
KeepLookahead_full(st, u) == [st EXCEPT !.u = u]

\* Lines 374-429: when the look-ahead passes the end of the buffer, refill
\* from the descriptor or shrink the look-ahead.  u is the stream after
\* SlideWindow.
KeepLookahead(st, u) ==
    IF u.lookahead + u.lookahead_currsize <= u.end THEN [st EXCEPT !.u = u]
    ELSE IF u.fd >= 0 /\ u.lookahead_currsize >= u.lookahead_maxsize
            /\ u.window > 0
    THEN Refill([st EXCEPT !.u = u])
    ELSE [st EXCEPT !.u = [u EXCEPT !.lookahead_currsize = @ - 1]]

\* Lines 431-434: fa is the result of lz77_find_and_add at the new position.
AddPosition(st, fa, i, count) ==
    IF i < count - 1 /\ ~st.err
    THEN [st EXCEPT !.u = [st.u EXCEPT !.tree = fa.tree],
                    !.oob = st.oob \/ fa.oob]
    ELSE st

FindAndAddNext(st, i, count) ==
    AddPosition(st, lz77_find_and_add(st.u, st.u.lookahead % st.u.window_maxsize),
                i, count)

\* The body of the for loop of ustream_find_and_advance, iterations i..count-1.
\* st = [u, rfd, err, oob]: the stream, the descriptor read from, whether a
\* read failed, whether lz77_find_and_add left the tree array.
RECURSIVE AdvanceLoop(_, _, _)
AdvanceLoop(st, i, count) ==
    IF i >= count \/ st.err THEN st
    ELSE AdvanceLoop(
             FindAndAddNext(
                 KeepLookahead(st, SlideWindow(DropOldest(st.u, i, count))),
                 i, count),
             i + 1, count)

\* The value ustream_find_and_advance returns: st is the state after the
\* for loop, found the length of the longest match.
Advanced(u, fa, found, st) ==
    [ret |-> IF st.err THEN -1 ELSE IF found = 0 THEN 1 ELSE found,
     u |-> IF st.err THEN st.u
           ELSE [st.u EXCEPT !.processed_bytes =
                                 @ + IF found = 0 THEN 1 ELSE found],
     rfd |-> st.rfd,
     offset |-> IF found = 0 THEN 0 ELSE fa.offset,
     length |-> found,
     next |-> IF found = 0 THEN ByteAt(u.data, u.lookahead) ELSE 0,
     oob |-> st.oob]

\* Lines 338-351: fa is the longest match at the look-ahead;
\* a match that cannot be encoded is replaced by a symbol.
AdvanceBy(u, rfd, fa, found) ==
    Advanced(u, fa, found,
             AdvanceLoop([u |-> [u EXCEPT !.tree = fa.tree], rfd |-> rfd,
                          err |-> FALSE, oob |-> fa.oob],
                         0, IF found = 0 THEN 1 ELSE found))

AdvanceFrom(u, rfd, fa) ==
    AdvanceBy(u, rfd, fa,
              IF fa.longest = 0 \/ ~tinyhuff_can_encode(u.length_encoder, fa.longest)
              THEN 0 ELSE fa.longest)

\* ustream_find_and_advance: ret is the number of bytes consumed, 0 at the
\* end of the input, -1 when a read failed.
ustream_find_and_advance(u, rfd) ==
    IF u.lookahead_currsize = 0
    THEN [ret |-> 0, u |-> u, rfd |-> rfd, offset |-> 0, length |-> 0,
          next |-> 0, oob |-> FALSE]
    ELSE IF u.window_currsize = 0
    THEN AdvanceFrom(u, rfd, [tree |-> SeedTree(u.tree, u.window_maxsize),
                              longest |-> 0, offset |-> 0, oob |-> FALSE])
    ELSE AdvanceFrom(u, rfd, lz77_find_and_add(u, u.lookahead % u.window_maxsize))

(***************************************************************************)
(* The compressed stream.  cached holds the cached_nbits valid bits of the *)
(* 64-bit write cache, which the code keeps left-aligned in the register   *)
(* with zeros below them.                                                  *)
(***************************************************************************)
lz77_cstream_to_memory(from, size, can_realloc) ==
    [fd |-> -1, data |-> << >>, size |-> size, pos |-> 0, end |-> 0,
     cached |-> << >>, cached_nbits |-> 0,
     can_realloc |-> can_realloc, is_input |-> 0,
     window_maxsize |-> from.window_maxsize,
     lookahead_maxsize |-> from.lookahead_maxsize,
     processed_bits |-> 0]

lz77_cstream_to_descriptor(from, fd) ==
    [fd |-> fd, data |-> << >>, size |-> CStreamFdBufferSize, pos |-> 0,
     end |-> 0, cached |-> << >>, cached_nbits |-> 0,
     can_realloc |-> 1, is_input |-> 0,
     window_maxsize |-> from.window_maxsize,
     lookahead_maxsize |-> from.lookahead_maxsize,
     processed_bits |-> 0]

\* lz77_cstream_from_memory that takes the size for a number of bits.
lz77_cstream_from_memory_bits(data, size) ==
    [fd |-> -1, data |-> data, size |-> size, pos |-> 0, end |-> size,
     cached |-> << >>, cached_nbits |-> 0,
     can_realloc |-> 0, is_input |-> 1,
     window_maxsize |-> 0, lookahead_maxsize |-> 0,
     processed_bits |-> 0]

lz77_cstream_from_memory(data, size) ==
    [fd |-> -1, data |-> data, size |-> size, pos |-> 0, end |-> size * 8,
     cached |-> << >>, cached_nbits |-> 0,
     can_realloc |-> 0, is_input |-> 1,
     window_maxsize |-> 0, lookahead_maxsize |-> 0,
     processed_bits |-> 0]

lz77_cstream_from_descriptor(fd) ==
    [fd |-> fd, data |-> << >>, size |-> CStreamFdBufferSize, pos |-> 0,
     end |-> 0, cached |-> << >>, cached_nbits |-> 0,
     can_realloc |-> 1, is_input |-> 1,
     window_maxsize |-> 0, lookahead_maxsize |-> 0,
     processed_bits |-> 0]

\* The bits handed to cstream_write, without those still in the cache.
lz77_cstream_get_flushed_bits(c) == c.processed_bits

lz77_cstream_get_processed_bits(c) == c.processed_bits + c.cached_nbits

\* The new size of a growable buffer (cstream_write and ustream_save):
\* at least the bytes needed, at least 1024, at least 1.1 times the old size.
GrownSize(needed, size) ==
    LET a == IF needed < MinAlloc THEN MinAlloc ELSE needed
    IN  IF a * 10 < size * 11 THEN (size * 11) \div 10 ELSE a

\* cstream_write: append nbytes bytes; wfd is the descriptor written to.
cstream_write(c, wfd, buffer, nbytes) ==
    LET full == c.end \div 8 + nbytes > c.size
        f == FlushLoop(wfd, c.data, c.end \div 8, 0)
        c1 == IF ~full THEN c
              ELSE IF c.fd >= 0 THEN [c EXCEPT !.end = 0, !.data = << >>]
              ELSE [c EXCEPT !.size = GrownSize(c.end \div 8 + nbytes, c.size)]
        done == [c1 EXCEPT !.data = @ \o SubSeq(buffer, 1, nbytes),
                           !.end = @ + nbytes * 8,
                           !.processed_bits = @ + nbytes * 8]
    IN  IF full /\ c.fd >= 0 /\ ~f.ok
        THEN [ret |-> -1, c |-> c, wfd |-> f.fd, errno |-> 0]
        ELSE IF full /\ c.fd < 0 /\ c.can_realloc = 0
        THEN [ret |-> -1, c |-> c, wfd |-> wfd, errno |-> ENOMEM]
        ELSE [ret |-> 0, c |-> done,
              wfd |-> IF full /\ c.fd >= 0 THEN f.fd ELSE wfd, errno |-> 0]

\* The outcomes of the mask (1 << nbits) - 1, computed in int: the number of
\* low-order bits of the value it keeps.  The shift is undefined for
\* nbits >= 32; a build either reduces the count modulo 32 or yields 0 for
\* the shift and so an all-ones mask.
MaskOutcomes(nbits) == IF nbits < 32 THEN {nbits} ELSE {nbits, nbits % 32}

\* cstream_write_bits: reg is the 64-bit register, keep the mask outcome.
\* The bits of reg above the field are zero in every caller.
cstream_write_bits(c, wfd, reg, startbit, nbits, keep) ==
    LET spill == c.cached_nbits + nbits > 64
        count == c.cached_nbits \div 8
        w == cstream_write(c, wfd, BytesOfBits(c.cached, count), count)
        c1 == IF spill
              THEN [w.c EXCEPT !.cached = Drop(c.cached, count * 8),
                               !.cached_nbits = c.cached_nbits % 8]
              ELSE c
        field == SubSeq(reg, startbit + 1, startbit + nbits)
        value == Zeros(nbits - keep) \o SubSeq(field, nbits - keep + 1, nbits)
    IN  [ret |-> IF spill THEN w.ret ELSE 0,
         c |-> [c1 EXCEPT !.cached = @ \o value, !.cached_nbits = @ + nbits],
         wfd |-> IF spill THEN w.wfd ELSE wfd,
         errno |-> IF spill THEN w.errno ELSE 0]

Magic == << 76, 90, 55, 55 >>

\* The 12 bytes of a cstream_header.
HeaderOf(window_size, lookahead_size) ==
    Magic \o << LZ77PPM_VERSION >> \o << 0, 0, 0 >>
          \o Be16(window_size) \o Be16(lookahead_size)

\* cstream_open of an output stream.
cstream_open_output(c, wfd) ==
    cstream_write(c, wfd, HeaderOf(c.window_maxsize, c.lookahead_maxsize),
                  HeaderBytes)

\* cstream_close; the result of writing the cached bits is not looked at.
cstream_close(c, wfd) ==
    LET nbytes == (c.cached_nbits + 7) \div 8
        w == cstream_write(c, wfd, BytesOfBits(c.cached, nbytes), nbytes)
        c1 == IF c.cached_nbits > 0
              THEN [w.c EXCEPT !.cached = << >>, !.cached_nbits = 0]
              ELSE c
        wfd1 == IF c.cached_nbits > 0 THEN w.wfd ELSE wfd
        errno1 == IF c.cached_nbits > 0 THEN w.errno ELSE 0
        f == FlushLoop(wfd1, c1.data, (c1.end + 7) \div 8, 0)
    IN  IF c1.fd >= 0 /\ c1.is_input = 0
        THEN IF f.ok
             THEN [ret |-> 0, c |-> [c1 EXCEPT !.end = 0, !.data = << >>],
                   wfd |-> f.fd, errno |-> errno1]
             ELSE [ret |-> -1, c |-> c1, wfd |-> f.fd, errno |-> errno1]
        ELSE [ret |-> 0, c |-> c1, wfd |-> wfd1, errno |-> errno1]

(***************************************************************************)
(* Tokens of lz77_compress, as the 64-bit register handed to               *)
(* cstream_write_bits.  The fields or-ed into the register do not overlap  *)
(* (offset < 2^wbits, code < 2^nbits), so the register is their            *)
(* concatenation.                                                          *)
(***************************************************************************)
PhraseToken(winoff_bits, enc, offset, length) ==
    LET e == tinyhuff_encode(enc, length)
        tbits == LZ77_TYPE_BITS + winoff_bits + e.nbits
    IN  [tbits |-> tbits,
         reg |-> Zeros(64 - tbits) \o << 1 >> \o BitsOf(offset, winoff_bits)
                     \o BitsOf(e.code, e.nbits)]

SymbolToken(next) ==
    [tbits |-> LZ77_SYMBOL_BITS,
     reg |-> Zeros(64 - LZ77_SYMBOL_BITS) \o << 0 >> \o BitsOf(next, LZ77_NEXT_BITS)]

TerminatorToken(winoff_bits, enc) == PhraseToken(winoff_bits, enc, 0, 0)

(***************************************************************************)
(* Reading the compressed stream.                                          *)
(***************************************************************************)
\* cstream_peek whose compaction moves the bytes and leaves pos where it was.
cstream_peek_unmoved(c, rfd, nbits) ==
    LET refill == c.pos + nbits > c.end /\ c.fd >= 0
        pos_byte == c.pos \div 8
        end_byte == (c.end + 7) \div 8
        kept == SubSeq(c.data, pos_byte + 1, end_byte)
        r == ReadCall(rfd, c.size - (end_byte - pos_byte))
        moved == [c EXCEPT !.data = kept \o Drop(c.data, end_byte - pos_byte),
                           !.end = @ - pos_byte * 8]
        c1 == IF ~refill THEN c
              ELSE IF r.n < 0 THEN moved
              ELSE [moved EXCEPT !.data = kept \o r.bytes,
                                 !.end = @ + r.n * 8]
        n == Max(0, Min(nbits, c1.end - c1.pos))
    IN  IF refill /\ r.n < 0
        THEN [n |-> -1, bits |-> << >>, c |-> c1, rfd |-> r.fd]
        ELSE [n |-> n,
              bits |-> [i \in 1..n |-> bit_get(c1.data, c1.pos + i - 1)],
              c |-> c1,
              rfd |-> IF refill THEN r.fd ELSE rfd]

\* cstream_peek: n is the number of bits peeked (-1 : the read failed),
\* bits the peeked bits; rfd is the descriptor read from.
cstream_peek(c, rfd, nbits) ==
    LET refill == c.pos + nbits > c.end /\ c.fd >= 0
        pos_byte == c.pos \div 8
        end_byte == (c.end + 7) \div 8
        kept == SubSeq(c.data, pos_byte + 1, end_byte)
        r == ReadCall(rfd, c.size - (end_byte - pos_byte))
        moved == [c EXCEPT !.data = kept \o Drop(c.data, end_byte - pos_byte),
                           !.pos = @ - pos_byte * 8,
                           !.end = @ - pos_byte * 8]
        c1 == IF ~refill THEN c
              ELSE IF r.n < 0 THEN moved
              ELSE [moved EXCEPT !.data = kept \o r.bytes,
                                 !.end = @ + r.n * 8]
        n == Min(nbits, c1.end - c1.pos)
    IN  IF refill /\ r.n < 0
        THEN [n |-> -1, bits |-> << >>, c |-> c1, rfd |-> r.fd]
        ELSE [n |-> n,
              bits |-> [i \in 1..n |-> bit_get(c1.data, c1.pos + i - 1)],
              c |-> c1,
              rfd |-> IF refill THEN r.fd ELSE rfd]

cstream_consume(c, nbits) ==
    LET n == IF nbits > c.end - c.pos THEN c.end - c.pos ELSE nbits
    IN  [c EXCEPT !.pos = @ + n, !.processed_bits = @ + n]

\* The loop of cstream_read; i is the count of the previous peek, p the
\* result of this iteration's peek.
RECURSIVE ReadLoop(_, _, _, _)
ReadPeeked(p, nbits, i) ==
    IF p.n <= 0 THEN [n |-> p.n, bits |-> << >>, c |-> p.c, rfd |-> p.rfd]
    ELSE IF p.n = i \/ p.n = nbits
    THEN [n |-> p.n, bits |-> p.bits, c |-> cstream_consume(p.c, p.n),
          rfd |-> p.rfd]
    ELSE ReadLoop(p.c, p.rfd, nbits, p.n)

ReadLoop(c, rfd, nbits, i) == ReadPeeked(cstream_peek(c, rfd, nbits), nbits, i)

cstream_read(c, rfd, nbits) == ReadLoop(c, rfd, nbits, 0)

\* The bytes of a bit string of whole bytes.
BytesOf(bits) == BytesOfBits(bits, Len(bits) \div 8)

\* Lines 168-195 without the test lookahead > window.
ValidateHeader_no_cmp(r, header, window_size, lookahead_size) ==
    IF SubSeq(header, 1, 4) # Magic
      THEN [ret |-> -1, c |-> r.c, rfd |-> r.rfd]
    ELSE IF header[5] # LZ77PPM_VERSION
      THEN [ret |-> -1, c |-> r.c, rfd |-> r.rfd]
    ELSE IF window_size < LZ77_MIN_WINDOW_SIZE
      THEN [ret |-> -1, c |-> [r.c EXCEPT !.window_maxsize = window_size],
            rfd |-> r.rfd]
    ELSE IF lookahead_size < LZ77_MIN_LOOKAHEAD_SIZE
      THEN [ret |-> -1,
            c |-> [r.c EXCEPT !.window_maxsize = window_size,
                              !.lookahead_maxsize = lookahead_size],
            rfd |-> r.rfd]
    ELSE [ret |-> 0,
          c |-> [r.c EXCEPT !.window_maxsize = window_size,
                            !.lookahead_maxsize = lookahead_size],
          rfd |-> r.rfd]

\* Lines 168-195: the tests on the 12 header bytes read by r; the sizes are
\* the two uint16 after ntohs.
ValidateHeader(r, header, window_size, lookahead_size) ==
    IF SubSeq(header, 1, 4) # Magic
      THEN [ret |-> -1, c |-> r.c, rfd |-> r.rfd]
    ELSE IF header[5] # LZ77PPM_VERSION
      THEN [ret |-> -1, c |-> r.c, rfd |-> r.rfd]
    ELSE IF window_size < LZ77_MIN_WINDOW_SIZE
      THEN [ret |-> -1, c |-> [r.c EXCEPT !.window_maxsize = window_size],
            rfd |-> r.rfd]
    ELSE IF lookahead_size < LZ77_MIN_LOOKAHEAD_SIZE
            \/ lookahead_size > window_size
      THEN [ret |-> -1,
            c |-> [r.c EXCEPT !.window_maxsize = window_size,
                              !.lookahead_maxsize = lookahead_size],
            rfd |-> r.rfd]
    ELSE [ret |-> 0,
          c |-> [r.c EXCEPT !.window_maxsize = window_size,
                            !.lookahead_maxsize = lookahead_size],
          rfd |-> r.rfd]

\* Lines 164-167: r is the result of reading the 96 header bits.
HeaderRead(r, header) ==
    IF r.n # HeaderBytes * 8 THEN [ret |-> -1, c |-> r.c, rfd |-> r.rfd]
    ELSE ValidateHeader(r, header, header[9] * 256 + header[10],
                        header[11] * 256 + header[12])

\* cstream_open of an input stream: read and validate the header.
cstream_open_input(c, rfd) ==
    HeaderRead(cstream_read(c, rfd, HeaderBytes * 8),
               BytesOf(cstream_read(c, rfd, HeaderBytes * 8).bits))

\* The copy that reads every byte from the data as it was before the copy.
CopyLoop_apart(data, from, length, i, junk) ==
    data \o [j \in 1..(length - i) |->
                IF from + i + j - 1 < Len(data) THEN data[from + i + j] ELSE junk]

(***************************************************************************)
(* ustream_save: append a token to the decompressed data.                  *)
(***************************************************************************)
\* The copy of a phrase, byte by byte (memcpy when source and destination
\* do not overlap): data[end + i] = window[offset + i].  A read outside the
\* bytes written so far yields junk.
RECURSIVE CopyLoop(_, _, _, _, _)
CopyLoop(data, from, length, i, junk) ==
    IF i >= length THEN data
    ELSE CopyLoop(Append(data, IF from + i < Len(data) THEN data[from + i + 1]
                               ELSE junk),
                  from, length, i + 1, junk)

\* ret : 0, or -1.  failed : an assertion of the function is violated.
\* oob : a byte outside the valid data was read.  wfd is the descriptor
\* written to, junk the value an out-of-bounds read yields.
ustream_save(u, wfd, offset, length, next, junk) ==
    LET count == IF length = 0 THEN 1 ELSE length
        full == u.size < u.end + count
        f == FlushLoop(wfd, u.data, u.window, 0)
        W == u.window_maxsize
        u1 == IF ~full THEN u
              ELSE IF u.fd >= 0
              THEN [u EXCEPT !.data = SubSeq(u.data, u.window + 1, u.window + W),
                             !.window = 0, !.end = W]
              ELSE [u EXCEPT !.size = GrownSize(u.end + count, u.size)]
        from == u1.window + offset
        data2 == IF length = 0 THEN Append(u1.data, next)
                 ELSE CopyLoop(u1.data, from, length, 0, junk)
        room == W - u1.window_currsize
        u3 == IF u1.window_currsize = W
              THEN [u1 EXCEPT !.window = @ + count]
              ELSE IF count <= room
              THEN [u1 EXCEPT !.window_currsize = @ + count]
              ELSE [u1 EXCEPT !.window_currsize = W,
                              !.window = @ + count - room]
        failed0 == \/ (length # 0 /\ offset > u.window_currsize)
                   \/ u.window + u.window_currsize # u.end
        failed1 == failed0 \/ (full /\ u.fd >= 0 /\ W # u.window_currsize)
        failed == failed1 \/ (length # 0 /\ ~(from < u1.end))
    IN  IF full /\ u.fd >= 0 /\ ~f.ok
        THEN [ret |-> -1, u |-> u, wfd |-> f.fd, errno |-> 0,
              failed |-> failed1, oob |-> FALSE]
        ELSE IF full /\ u.fd < 0 /\ u.can_realloc = 0
        THEN [ret |-> -1, u |-> u, wfd |-> wfd, errno |-> ENOMEM,
              failed |-> failed0, oob |-> FALSE]
        ELSE [ret |-> 0,
              u |-> [u3 EXCEPT !.data = data2, !.end = @ + count,
                               !.processed_bytes = @ + count],
              wfd |-> IF full /\ u.fd >= 0 THEN f.fd ELSE wfd,
              errno |-> 0,
              failed |-> failed,
              oob |-> length # 0 /\ from >= u1.end]

(***************************************************************************)
(* Scenarios: the arguments of the stream constructors and the behaviour   *)
(* of the descriptors during one compression.                              *)
(***************************************************************************)
Bytes == {65, 66}
Strs(n) == UNION {[1..k -> Bytes] : k \in 0..n}

\* Eight distinct bytes: eight symbol tokens, more than the 64-bit cache.
Distinct8 == << 65, 66, 67, 68, 69, 70, 71, 72 >>
Run(b, n) == [i \in 1..n |-> b]

Scenario(W, L, src, usrc, rchunk, rfail, csink, ccap, wchunk, wfail, adv) ==
    [W |-> W, L |-> L, src |-> src, usrc |-> usrc, rchunk |-> rchunk,
     rfail |-> rfail, csink |-> csink, ccap |-> ccap, wchunk |-> wchunk,
     wfail |-> wfail, adv |-> adv]

Whole == 65536       \* a descriptor that reads or writes all that is asked

\* Memory to growable memory, every small (W, L) and every short input.
MemScenarios ==
    { Scenario(W, L, src, "mem", Whole, 0, "mem", 0, Whole, 0, FALSE) :
        W \in LZ77_MIN_WINDOW_SIZE..MaxW, L \in LZ77_MIN_LOOKAHEAD_SIZE..MaxW,
        src \in Strs(MaxLen) }

\* Arguments given to the constructors of an input stream, the valid ones and
\* those on each side of every limit.
ArgW == 2
ArgL == 6
ArgScenarios ==
    { Scenario(W, L, << 65 >>, usrc, Whole, 0, "mem", 0, Whole, 0, FALSE) :
        W \in ArgW..MaxW, L \in 0..ArgL, usrc \in {"mem", "fd"} }

\* A look-ahead large enough for a length code of 6 + 11 bits.
BigW == 1032
BigL == 1032
BigScenarios ==
    { Scenario(BigW, BigL, Run(65, n), "mem", Whole, 0, "mem", 0, Whole, 0, FALSE) :
        n \in {8, 9} }

SpecialSrcs == { << >>, << 65 >>, << 65, 66, 65, 66, 65 >>, Distinct8,
                 Distinct8 \o << 65, 66 >> }

\* Memory to a fixed buffer of ccap bytes.
FixedScenarios ==
    { Scenario(4, 2, src, "mem", Whole, 0, "fixed", ccap, Whole, 0, FALSE) :
        src \in SpecialSrcs, ccap \in 10..24 }

\* A descriptor as the input, with short reads and read errors.
FdInScenarios ==
    { Scenario(4, 2, src, "fd", rchunk, rfail, "mem", 0, Whole, 0, FALSE) :
        src \in SpecialSrcs, rchunk \in (1..10) \cup {Whole}, rfail \in 0..3 }

\* A descriptor as the output, with short writes.
FdOutScenarios ==
    { Scenario(4, 2, src, "mem", Whole, 0, "fd", 0, wchunk, 0, FALSE) :
        src \in SpecialSrcs, wchunk \in (1..8) \cup {Whole} }

\* A descriptor as the output whose first write, the flush made on closing,
\* fails.
FdOutFailScenarios ==
    { Scenario(4, 2, src, "mem", Whole, 0, "fd", 0, Whole, 1, FALSE) :
        src \in { << >>, << 65 >>, Distinct8 } }

\* Inputs longer than the buffer of a descriptor-backed stream, 10 * (W + L)
\* bytes for the input of the compression and 10 * W for the output of the
\* decompression: a run of one byte and a mix of three.
LongLen == 130
Mix(n) == [i \in 1..n |-> 65 + ((((i * i) % 7) + (i \div 9)) % 3)]
LongSrcs == { Run(65, LongLen), Mix(LongLen) }
LongScenarios ==
    { Scenario(4, L, src, usrc, Whole, 0, "mem", 0, Whole, 0, FALSE) :
        L \in {2, 4}, src \in LongSrcs, usrc \in {"mem", "fd"} }

\* Compressions whose output is altered before it is decompressed.
AdvScenarios ==
    { Scenario(4, 2, src, "mem", Whole, 0, "mem", 0, Whole, 0, TRUE) :
        src \in { << >>, << 65 >>, << 65, 65, 65 >>, << 65, 66, 65, 66, 65 >> } }

Scenarios ==
    { s \in MemScenarios : s.L <= s.W } \cup BigScenarios \cup FixedScenarios
        \cup FdInScenarios \cup FdOutScenarios \cup AdvScenarios
        \cup FdOutFailScenarios \cup LongScenarios

VARIABLES
    scn,         \* the scenario
    pc,          \* the position in lz77_compress / lz77_decompress
    original,    \* the input lz77_ustream of the compression
    compressed,  \* the output lz77_cstream of the compression
    rfd,         \* the descriptor the compression reads
    wfd,         \* the descriptor the compression writes
    cres,        \* the value returned by lz77_compress, once it has returned
    cerrno,      \* errno after lz77_compress
    dcfg,        \* how the decompression was set up
    cin,         \* the input lz77_cstream of the decompression
    restored,    \* the output lz77_ustream of the decompression
    drfd,        \* the descriptor the decompression reads
    dwfd,        \* the descriptor the decompression writes
    tok,         \* the offset of the phrase token being read
    dres,        \* the value returned by lz77_decompress, once it has returned
    derrno,      \* errno after lz77_decompress
    oob,         \* a byte outside the valid data has been read
    heap,        \* what the freed streams left: buffers, released memory
    call         \* a single call of the length code or of cstream_write_bits

vars == << scn, pc, original, compressed, rfd, wfd, cres, cerrno, dcfg, cin,
           restored, drfd, dwfd, tok, dres, derrno, oob, heap,
           call >>

cvars == << original, compressed, rfd, wfd, cres, cerrno >>
dvars == << dcfg, cin, restored, drfd, dwfd, tok, dres, derrno >>

NoStream == [fd |-> -1]

\* The streams a caller holds, and the heap before any of them is freed:
\* nothing released, no descriptor closed, no data buffer left behind.
StreamNames == {"original", "compressed", "cin", "restored"}
\* No single call is under way.
NoCall == [fn |-> "none", step |-> "none"]

NoHeap == [released |-> {}, closed |-> {}, data |-> [n \in StreamNames |-> << >>]]
NoFd == [calls |-> 0]

InitOf(s) ==
    /\ scn = s
    /\ pc = "compress_open"
    /\ original = IF s.usrc = "fd"
                  THEN lz77_ustream_from_descriptor(3, s.W, s.L)
                  ELSE lz77_ustream_from_memory(s.src, Len(s.src), s.W, s.L)
    /\ compressed = IF s.csink = "fd"
                    THEN lz77_cstream_to_descriptor(original, 4)
                    ELSE lz77_cstream_to_memory(original, s.ccap,
                                                IF s.csink = "mem" THEN 1 ELSE 0)
    /\ rfd = NewReadFd(s.src, s.rchunk, s.rfail)
    /\ wfd = NewWriteFd(s.wchunk, s.wfail)
    /\ cres = 0
    /\ cerrno = 0
    /\ dcfg = [tamper |-> << "none" >>, input |-> "mem", rchunk |-> 0,
               sink |-> "mem", cap |-> 0, ndebug |-> FALSE]
    /\ cin = NoStream
    /\ restored = NoStream
    /\ drfd = NoFd
    /\ dwfd = NoFd
    /\ tok = 0
    /\ dres = 0
    /\ derrno = 0
    /\ oob = FALSE
    /\ heap = NoHeap
    /\ call = NoCall

\* Before the input stream is created: no stream yet.
InitArgs(s) ==
    /\ scn = s
    /\ pc = "create"
    /\ original = NoStream
    /\ compressed = NoStream
    /\ rfd = NewReadFd(s.src, s.rchunk, s.rfail)
    /\ wfd = NewWriteFd(s.wchunk, s.wfail)
    /\ cres = 0
    /\ cerrno = 0
    /\ dcfg = [tamper |-> << "none" >>, input |-> "mem", rchunk |-> 0,
               sink |-> "mem", cap |-> 0, ndebug |-> FALSE]
    /\ cin = NoStream
    /\ restored = NoStream
    /\ drfd = NoFd
    /\ dwfd = NoFd
    /\ tok = 0
    /\ dres = 0
    /\ derrno = 0
    /\ oob = FALSE
    /\ heap = NoHeap
    /\ call = NoCall

Init ==
    \/ \E s \in Scenarios : InitOf(s)
    \/ \E s \in ArgScenarios : InitArgs(s)

(***************************************************************************)
(* lz77_ustream_from_memory, lz77_ustream_from_descriptor                  *)
(***************************************************************************)
\* The constructor called with the window and lookahead sizes of the
\* scenario: NULL and EINVAL when the arguments are refused, else the stream.
CreateInput ==
    /\ pc = "create"
    /\ IF ArgsRefused(scn.W, scn.L)
       THEN /\ pc' = "create_ret"
            /\ original' = NoStream
            /\ cerrno' = EINVAL
       ELSE /\ pc' = "created"
            /\ original' = IF scn.usrc = "fd"
                           THEN lz77_ustream_from_descriptor(3, scn.W, scn.L)
                           ELSE lz77_ustream_from_memory(scn.src, Len(scn.src),
                                                         scn.W, scn.L)
            /\ UNCHANGED cerrno
    /\ UNCHANGED << scn, heap, call, compressed, rfd, wfd, cres, dvars, oob >>

(***************************************************************************)
(* lz77_compress                                                           *)
(***************************************************************************)
\* Lines 39-41: open both streams.
CompressOpen ==
    /\ pc = "compress_open"
    /\ LET uo == ustream_open_input(original, rfd)
           co == cstream_open_output(compressed, wfd)
       IN  IF uo.ret < 0
           THEN /\ pc' = "compress_ret"
                /\ cres' = -1
                /\ rfd' = uo.rfd
                /\ UNCHANGED << original, compressed, wfd, cerrno >>
           ELSE /\ original' = uo.u
                /\ rfd' = uo.rfd
                /\ compressed' = co.c
                /\ wfd' = co.wfd
                /\ cerrno' = co.errno
                /\ IF co.ret < 0
                   THEN pc' = "compress_ret" /\ cres' = -1
                   ELSE pc' = "compress_loop" /\ UNCHANGED cres
    /\ UNCHANGED << scn, heap, call, dvars, oob >>

\* Lines 65-78: the token for what ustream_find_and_advance returned.
TokenOf(fa) ==
    IF fa.length # 0
    THEN PhraseToken(original.window_nbits, original.length_encoder,
                     fa.offset, fa.length)
    ELSE SymbolToken(fa.next)

\* Lines 82-84: wb is the result of cstream_write_bits; a failed write ends
\* the compression.
TokenWritten(fa, wb) ==
    /\ original' = fa.u
    /\ rfd' = fa.rfd
    /\ oob' = (oob \/ fa.oob)
    /\ compressed' = wb.c
    /\ wfd' = wb.wfd
    /\ IF wb.ret < 0
       THEN /\ pc' = "compress_ret"
            /\ cres' = -1
            /\ cerrno' = wb.errno
       ELSE UNCHANGED << pc, cres, cerrno >>

\* Lines 81-82: write the tbits low bits of the token register.
WriteToken(fa, t) ==
    \E keep \in MaskOutcomes(t.tbits) :
        TokenWritten(fa, cstream_write_bits(compressed, wfd, t.reg,
                                            64 - t.tbits, t.tbits, keep))

\* Line 61: the loop goes on while ustream_find_and_advance returns > 0.
TokenFound(fa) == fa.ret > 0 /\ WriteToken(fa, TokenOf(fa))

\* One iteration of the while loop: find a token, advance, write the token.
CompressToken ==
    /\ pc = "compress_loop"
    /\ TokenFound(ustream_find_and_advance(original, rfd))
    /\ UNCHANGED << scn, heap, call, dvars >>

\* Lines 107-109: cc is the result of cstream_close; the value returned is
\* the number of bytes of the compressed stream.
CompressReturns(uc, cc) ==
    /\ original' = uc.u
    /\ compressed' = cc.c
    /\ wfd' = cc.wfd
    /\ cres' = (lz77_cstream_get_processed_bits(cc.c) + 7) \div 8
    /\ cerrno' = cc.errno

\* Lines 106-107: uc is the result of ustream_close.
CompressCloses(wb, uc) == CompressReturns(uc, cstream_close(wb.c, uc.wfd))

\* Lines 102-106: wb is the result of writing the terminating token.
TerminatorWritten(fa, wb) ==
    /\ rfd' = fa.rfd
    /\ pc' = "compress_ret"
    /\ IF wb.ret < 0
       THEN /\ original' = fa.u
            /\ compressed' = wb.c
            /\ wfd' = wb.wfd
            /\ cres' = -1
            /\ cerrno' = wb.errno
       ELSE CompressCloses(wb, ustream_close(fa.u, wb.wfd))

\* Lines 96-102: write the terminating token.
WriteTerminator(fa, t) ==
    \E keep \in MaskOutcomes(t.tbits) :
        TerminatorWritten(fa, cstream_write_bits(compressed, wfd, t.reg,
                                                 64 - t.tbits, t.tbits, keep))

\* Line 61: the loop ends when ustream_find_and_advance returns 0 or -1.
LoopEnded(fa) ==
    /\ fa.ret <= 0
    /\ WriteTerminator(fa, TerminatorToken(original.window_nbits,
                                           original.length_encoder))

\* The loop ends (end of input, or a failed read): write the terminating
\* token, close both streams, return the number of bytes.
CompressFinish ==
    /\ pc = "compress_loop"
    /\ LoopEnded(ustream_find_and_advance(original, rfd))
    /\ UNCHANGED << scn, heap, call, dvars, oob >>

(***************************************************************************)
(* Between the two calls: the caller hands the compressed bytes to a new   *)
(* input lz77_cstream and creates the output lz77_ustream.                 *)
(***************************************************************************)
\* The bytes lz77_compress produced: the first cres bytes of the memory
\* buffer, or the bytes the descriptor accepted.
CompressedBytes ==
    IF scn.csink = "fd" THEN wfd.written ELSE Take(compressed.data, cres)

\* Values written over a byte of the stream.
TamperValues == {0, 1, 3, 136, 152, 255}

\* The alterations of a stream of n bytes: none, truncation to k bytes,
\* one byte replaced.
Tampers(n) ==
    {<< "none" >>} \cup {<< "trunc", k >> : k \in 0..(n - 1)}
        \cup {<< "byte", i, v >> : i \in 1..n, v \in TamperValues}

Tamper(bytes, t) ==
    IF t[1] = "trunc" THEN SubSeq(bytes, 1, t[2])
    ELSE IF t[1] = "byte" THEN [bytes EXCEPT ![t[2]] = t[3]]
    ELSE bytes

\* The capacities tried for a fixed output buffer, around the input length.
FixedCaps == {c \in (Len(scn.src) - 2)..(Len(scn.src) + 1) : c >= 0}

\* The largest counts one read of the compressed descriptor returns.
InputChunks == {1, 5}

\* The compressions whose output is also decompressed to a descriptor.
ToDescriptor ==
    /\ scn.usrc = "mem" /\ scn.csink = "mem" /\ ~scn.adv
    /\ \/ /\ scn.W = LZ77_MIN_WINDOW_SIZE /\ scn.L = LZ77_MIN_LOOKAHEAD_SIZE
          /\ scn.src \in SpecialSrcs
       \/ scn.src \in LongSrcs

\* tamper: the alteration of the stream; input: memory, or a descriptor
\* whose reads return at most rchunk bytes; sink and cap: the output buffer;
\* ndebug: assertions are compiled out.
DecompressConfig(tamper, input, rchunk, sink, cap, ndebug) ==
    [tamper |-> tamper, input |-> input, rchunk |-> rchunk, sink |-> sink,
     cap |-> cap, ndebug |-> ndebug]

DecompressConfigs ==
    IF scn.adv
    THEN { DecompressConfig(t, "mem", Whole, "mem", 0, nd) :
             t \in Tampers(Len(CompressedBytes)), nd \in BOOLEAN }
         \cup { DecompressConfig(t, "fd", k, "mem", 0, FALSE) :
                  t \in Tampers(Len(CompressedBytes)), k \in InputChunks }
    ELSE { DecompressConfig(<< "none" >>, "mem", Whole, "mem", 0, FALSE) }
         \cup { DecompressConfig(<< "none" >>, "mem", Whole, "fixed", c, FALSE) :
                  c \in FixedCaps }
         \cup (IF ToDescriptor
               THEN { DecompressConfig(<< "none" >>, "mem", Whole, "fd", 0, FALSE) }
               ELSE {})

\* The behaviours of the descriptor the decompression writes: the largest
\* count one write accepts and the number of the write that fails (0: none).
SinkChunks == {1, 3, Whole}
SinkWrites(cfg) ==
    IF cfg.sink = "fd"
    THEN { NewWriteFd(k, f) : k \in SinkChunks, f \in {0, 1} }
    ELSE { NewWriteFd(Whole, 0) }

Transfer ==
    /\ pc = "compress_ret"
    /\ cres >= 0
    /\ \E cfg \in DecompressConfigs :
         LET stream == Tamper(CompressedBytes, cfg.tamper)
         IN  /\ dcfg' = cfg
             /\ cin' = IF cfg.input = "fd" THEN lz77_cstream_from_descriptor(5)
                        ELSE lz77_cstream_from_memory(stream, Len(stream))
             /\ restored' = IF cfg.sink = "fd" THEN lz77_ustream_to_descriptor(6)
                             ELSE lz77_ustream_to_memory(cfg.cap,
                                      IF cfg.sink = "mem" THEN 1 ELSE 0)
             /\ drfd' = NewReadFd(IF cfg.input = "fd" THEN stream ELSE << >>,
                                  cfg.rchunk, 0)
             /\ dwfd' \in SinkWrites(cfg)
    /\ pc' = "decompress_open"
    /\ UNCHANGED << scn, heap, call, cvars, tok, dres, derrno, oob >>

(***************************************************************************)
(* lz77_decompress                                                         *)
(***************************************************************************)
\* Lines 122-124: open both streams.
DecompressOpen ==
    /\ pc = "decompress_open"
    /\ LET co == cstream_open_input(cin, drfd)
       IN  /\ cin' = co.c
           /\ drfd' = co.rfd
           /\ IF co.ret < 0
              THEN /\ pc' = "decompress_ret"
                   /\ dres' = -1
                   /\ UNCHANGED restored
              ELSE /\ pc' = "decompress_loop"
                   /\ restored' = ustream_open_output(restored, co.c)
                   /\ UNCHANGED dres
    /\ UNCHANGED << scn, heap, call, cvars, dcfg, dwfd, tok, derrno, oob >>

\* The effect of ustream_save on the decompression: an assertion that fails
\* ends the process when assertions are compiled in.
Saved(sv) ==
    /\ restored' = sv.u
    /\ dwfd' = sv.wfd
    /\ IF sv.failed /\ ~dcfg.ndebug
       THEN pc' = "aborted" /\ UNCHANGED << dres, derrno, oob >>
       ELSE IF sv.ret < 0
       THEN pc' = "decompress_ret" /\ dres' = -1 /\ derrno' = sv.errno
            /\ UNCHANGED oob
       ELSE pc' = "decompress_loop" /\ oob' = (oob \/ sv.oob)
            /\ UNCHANGED << dres, derrno >>

\* Values an out-of-bounds read may yield.
JunkBytes == {0, 255}

\* Lines 146-155 and 177-187: read the type bit of the next token; for a
\* phrase read the offset, for a symbol read the byte and save it.
DecompressToken ==
    /\ pc = "decompress_loop"
    /\ LET r1 == cstream_read(cin, drfd, LZ77_TYPE_BITS)
           state == r1.n > 0 /\ r1.bits[1] = 1
           wbits == restored.window_nbits
           r2 == cstream_read(r1.c, r1.rfd, wbits)
           r3 == cstream_read(r1.c, r1.rfd, LZ77_NEXT_BITS)
       IN  IF state
           THEN /\ cin' = r2.c
                /\ drfd' = r2.rfd
                /\ tok' = ValueOf(r2.bits \o Zeros(wbits - Len(r2.bits)))
                /\ pc' = "decompress_length"
                /\ UNCHANGED << restored, dwfd, dres, derrno, oob >>
           ELSE /\ cin' = r3.c
                /\ drfd' = r3.rfd
                /\ UNCHANGED tok
                /\ IF r3.n # LZ77_NEXT_BITS
                   THEN /\ pc' = "decompress_ret"
                        /\ dres' = -1
                        /\ UNCHANGED << restored, dwfd, derrno, oob >>
                   ELSE \E junk \in JunkBytes :
                          Saved(ustream_save(restored, dwfd, 0, 0,
                                             ValueOf(r3.bits), junk))
    /\ UNCHANGED << scn, heap, call, cvars, dcfg >>

\* Lines 157-175 and 185: one iteration of the loop that decodes the length
\* of a phrase: peek 16 bits, decode; when the code is complete consume it,
\* then either stop at the terminating token or save the phrase.
DecompressLength ==
    /\ pc = "decompress_length"
    /\ LET p == cstream_peek(cin, drfd, PeekBits)
           d == tinyhuff_decode(restored.length_encoder, p.bits)
           c2 == cstream_consume(p.c, d.consume)
           cc == cstream_close(c2, dwfd)
           uc == ustream_close(restored, dwfd)
       IN  /\ drfd' = p.rfd
           /\ UNCHANGED tok
           /\ IF d.failed /\ ~dcfg.ndebug
              THEN /\ pc' = "aborted"
                   /\ cin' = p.c
                   /\ UNCHANGED << restored, dwfd, dres, derrno, oob >>
              ELSE IF d.consume = 0
              THEN /\ cin' = p.c
                   /\ UNCHANGED << pc, restored, dwfd, dres, derrno, oob >>
              ELSE IF d.value = 0
              THEN /\ cin' = cc.c
                   /\ restored' = uc.u
                   /\ dwfd' = uc.wfd
                   /\ pc' = "decompress_ret"
                   /\ dres' = restored.processed_bytes
                   /\ UNCHANGED << derrno, oob >>
              ELSE /\ cin' = c2
                   /\ \E junk \in JunkBytes :
                        Saved(ustream_save(restored, dwfd, tok, d.value, 0, junk))
    /\ UNCHANGED << scn, heap, call, cvars, dcfg >>

(***************************************************************************)
(* lz77_cstream_free, lz77_ustream_free                                    *)
(***************************************************************************)
\* free(cstream->data) for every stream, whatever it is backed by.
lz77_cstream_free_always(c, name, h) ==
    IF c = NoStream THEN h
    ELSE [h EXCEPT !.released = @ \cup {<< name, "data" >>, << name, "object" >>}]

\* lz77_cstream_free(&c) on the heap h: nothing for NULL; the internal buffer
\* is released when the stream has a descriptor, the buffer of a memory-backed
\* stream is left to the caller as it is; then the object is released.  The
\* descriptor is not closed.
lz77_cstream_free(c, name, h) ==
    IF c = NoStream THEN h
    ELSE IF c.fd >= 0
    THEN [h EXCEPT !.released = @ \cup {<< name, "data" >>, << name, "object" >>}]
    ELSE [h EXCEPT !.released = @ \cup {<< name, "object" >>},
                   !.data[name] = c.data]

\* lz77_ustream_free(&u): as above, and the tree and the length encoder are
\* released.
lz77_ustream_free(u, name, h) ==
    IF u = NoStream THEN h
    ELSE IF u.fd >= 0
    THEN [h EXCEPT !.released = @ \cup {<< name, "data" >>, << name, "tree" >>,
                                        << name, "length_encoder" >>,
                                        << name, "object" >>}]
    ELSE [h EXCEPT !.released = @ \cup {<< name, "tree" >>,
                                        << name, "length_encoder" >>,
                                        << name, "object" >>},
                   !.data[name] = u.data]

\* The caller frees its four streams once the compression has failed or the
\* decompression has returned; each pointer is set to NULL.
Free ==
    /\ \/ pc = "compress_ret" /\ cres < 0
       \/ pc = "decompress_ret"
    /\ pc' = "freed"
    /\ heap' = lz77_ustream_free(restored, "restored",
                 lz77_cstream_free(cin, "cin",
                   lz77_cstream_free(compressed, "compressed",
                     lz77_ustream_free(original, "original", heap))))
    /\ original' = NoStream
    /\ compressed' = NoStream
    /\ cin' = NoStream
    /\ restored' = NoStream
    /\ UNCHANGED << scn, call, rfd, wfd, cres, cerrno, dcfg, drfd, dwfd, tok, dres,
                    derrno, oob >>

Next ==
    \/ CreateInput
    \/ CompressOpen
    \/ CompressToken
    \/ CompressFinish
    \/ Transfer
    \/ DecompressOpen
    \/ DecompressToken
    \/ DecompressLength
    \/ Free

Spec == Init /\ [][Next]_vars

\* The codec runs whenever it can take a step.
FairSpec == Spec /\ WF_vars(Next)

\* The bytes the decompression produced.
Output == restored.data

\* The compressed bytes handed to the decompression.
Stream == IF dcfg.input = "fd" THEN drfd.content ELSE cin.data

\* The loop that decodes a length (lines 157-166) repeats without end: one
\* more iteration decodes nothing and leaves every variable as it is.
LengthLoopSpins ==
    /\ pc = "decompress_length"
    /\ LET p == cstream_peek(cin, drfd, PeekBits)
           d == tinyhuff_decode(restored.length_encoder, p.bits)
       IN  /\ d.consume = 0
           /\ ~(d.failed /\ ~dcfg.ndebug)
           /\ p.c = cin
           /\ p.rfd = drfd

(***************************************************************************)
(* The complete output of a compression from memory, computed token by     *)
(* token as lz77_compress computes it, without the buffering of the        *)
(* compressed stream.                                                      *)
(***************************************************************************)
TokenField(t) == SubSeq(t.reg, 64 - t.tbits + 1, 64)

\* The bits of the tokens of the opened input stream u, terminator included.
RECURSIVE TokenBits(_)
TokenBits(u) ==
    LET fa == ustream_find_and_advance(u, NoFd)
        t == IF fa.length # 0
             THEN PhraseToken(u.window_nbits, u.length_encoder, fa.offset, fa.length)
             ELSE SymbolToken(fa.next)
    IN  IF fa.ret > 0 THEN TokenField(t) \o TokenBits(fa.u)
        ELSE TokenField(TerminatorToken(u.window_nbits, u.length_encoder))

\* Header, tokens and terminator, padded with zero bits to whole bytes.
CompleteOutput(W, L, src) ==
    LET opened == ustream_open_input(lz77_ustream_from_memory(src, Len(src), W, L),
                                     NoFd)
        bits == TokenBits(opened.u)
    IN  HeaderOf(W, L) \o BytesOfBits(bits, (Len(bits) + 7) \div 8)

(***************************************************************************)
(* Single calls of the length code and of cstream_write_bits.              *)
(***************************************************************************)
MaxSize == 65535     \* the largest uint16_t window or look-ahead size
MidSize == 16
CodeSpan == 8

\* The length encoder ustream_open sets up for a window of W bytes and a
\* look-ahead of L bytes.
LengthEncoder(W, L) ==
    tinyhuff_init(min_match_length(number_of_bits(W - 1)), L)

\* Valid sizes: the small ones, and sizes whose longest code has 10, 17 and
\* 22 bits.
CodeSizes ==
    { << W, L >> \in (LZ77_MIN_WINDOW_SIZE..MaxW) \X (LZ77_MIN_LOOKAHEAD_SIZE..MaxW) :
        L <= W }
      \cup { << MidSize, MidSize >>, << BigW, BigL >>, << MaxSize, MaxSize >> }

\* Lengths the encoder can encode: 0, the first ones from the minimum, the
\* last two.
CodeValues(enc) ==
    { v \in ({0} \cup (enc.min_value..(enc.min_value + CodeSpan))
                 \cup {enc.max_value - 1, enc.max_value}) :
        tinyhuff_can_encode(enc, v) }

\* The calls for one encoder; follow is the bit that fills the peeked bits
\* after the code.
EncodeCallsFor(enc) ==
    { [fn |-> "tinyhuff", step |-> "encode", enc |-> enc, value |-> v,
       follow |-> f, nbits |-> 0, code |-> 0, consumed |-> 0, decoded |-> 0] :
        v \in CodeValues(enc), f \in {0, 1} }

EncodeCalls ==
    UNION { EncodeCallsFor(LengthEncoder(s[1], s[2])) : s \in CodeSizes }

\* The bits of the bytes, most significant first.
RECURSIVE BitsOfBytes(_)
BitsOfBytes(bytes) ==
    IF bytes = << >> THEN << >>
    ELSE BitsOf(bytes[1], 8) \o BitsOfBytes(Drop(bytes, 1))

\* An open output stream in memory whose cache holds the bits pre.
CachedStream(pre) ==
    LET from == lz77_ustream_from_memory(<< >>, 0, LZ77_MIN_WINDOW_SIZE,
                                         LZ77_MIN_LOOKAHEAD_SIZE)
        opened == cstream_open_output(lz77_cstream_to_memory(from, 0, 1), NoFd).c
    IN  [opened EXCEPT !.cached = pre, !.cached_nbits = Len(pre)]

\* The bit stream written so far: the bytes after the header, then the cache.
StreamBits(c) == BitsOfBytes(Drop(c.data, HeaderBytes)) \o c.cached

\* Line 351: when the cache must be emptied first it holds two bytes or more.
WriteDefined(cached_nbits, nbits) ==
    cached_nbits + nbits <= 64 \/ cached_nbits \div 8 > 1

WriteSizes == {1, 9, 17, 31, 32, 33, 39, 48, 64}
CachedSizes == {0, 5, 24, 40}

\* A register whose field of n bits starts at startbit: alternating bits or
\* ones in the field, zeros before it, ones after it.
Register(startbit, n, ones) ==
    [i \in 1..64 |->
        IF i <= startbit THEN 0
        ELSE IF i > startbit + n THEN 1
        ELSE IF ones THEN 1 ELSE (i - startbit) % 2]

\* The calls that write n bits after k cached bits, the field at the start
\* or at the end of the register.
WriteCallsFor(k, n) ==
    { [fn |-> "write_bits", step |-> "write", pre |-> Run(1, k),
       reg |-> Register(sb, n, ones), startbit |-> sb, nbits |-> n,
       ret |-> 0, out |-> << >>] :
        ones \in BOOLEAN, sb \in {0, 64 - n} }

WriteCalls ==
    UNION { WriteCallsFor(s[1], s[2]) :
              s \in { x \in CachedSizes \X WriteSizes : WriteDefined(x[1], x[2]) } }

\* Window sizes around every change of window_nbits, and the largest ones.
OpenWindows ==
    { w \in { Pow2(k) : k \in 2..15 } \cup { Pow2(k) + 1 : k \in 2..15 }
               \cup { MaxSize - 1, MaxSize } :
        ~ArgsRefused(w, LZ77_MIN_LOOKAHEAD_SIZE) }

\* Look-ahead sizes for the window W: the smallest, the ones around
\* max_encoded_value, the largest.
OpenLookaheads(W) ==
    LET m == min_match_length(number_of_bits(W - 1))
    IN  { l \in { LZ77_MIN_LOOKAHEAD_SIZE, m + ENCODING_TABLE_SIZE - 3,
                  m + ENCODING_TABLE_SIZE - 2, m + ENCODING_TABLE_SIZE - 1, W } :
            ~ArgsRefused(W, l) /\ l <= W }

\* lz77_ustream_from_memory for the valid sizes, ustream_open to come.
OpenCallsFor(W) ==
    { [fn |-> "ustream_open", step |-> "open", W |-> W, L |-> l,
       u |-> lz77_ustream_from_memory(<< >>, 0, W, l)] :
        l \in OpenLookaheads(W) }

OpenCalls == UNION { OpenCallsFor(w) : w \in OpenWindows }

\* The tree once the window is full for the first time, for the input B A A
\* A ...: slot 0, the first position, is the real root and the last position
\* added, W - 1, which took the place of every A A before it, is its smaller
\* child.
WrappedTree(W) ==
    [i \in 0..W |->
        IF i = W THEN [UnusedNode EXCEPT !.larger = 0]
        ELSE IF i = 0 THEN [parent |-> W, smaller |-> W - 1, larger |-> UNUSED]
        ELSE IF i = W - 1 THEN [parent |-> 0, smaller |-> UNUSED, larger |-> UNUSED]
        ELSE UnusedNode]

\* The input B A A A ... of n bytes.
WrapInput(n) == << 66 >> \o Run(65, n - 1)

\* The stream of that input after its first W bytes, look-ahead of L bytes.
WrappedStream(W, L) ==
    [ustream_open_input(lz77_ustream_from_memory(WrapInput(W + L), W + L, W, L),
                        NoFd).u
        EXCEPT !.tree = WrappedTree(W), !.window_currsize = W, !.lookahead = W,
               !.processed_bytes = W]

\* Windows whose first slot is searched again: small ones and the largest.
WrapWindows == {LZ77_MIN_WINDOW_SIZE, MaxW, MidSize, MaxSize - 1, MaxSize}

\* lz77_find_and_add(ustream, curr, &offset) on the slot of the look-ahead.
WrapCalls ==
    { [fn |-> "lz77_find_and_add", step |-> "search",
       u |-> WrappedStream(w, LZ77_MIN_LOOKAHEAD_SIZE),
       longest |-> 0, offset |-> 0, oob |-> FALSE] : w \in WrapWindows }

\* The tree once the window is full for the first time, for the input B A C
\* C ... C A ...: slot 0 is the root, slot 1 (A C) its smaller child, slot
\* W - 2 (C C), which took the place of every C C before it, its larger
\* child, and slot W - 1 (C A) the smaller child of that one.
TailTree(W) ==
    [i \in 0..W |->
        IF i = W THEN [UnusedNode EXCEPT !.larger = 0]
        ELSE IF i = 0 THEN [parent |-> W, smaller |-> 1, larger |-> W - 2]
        ELSE IF i = 1 THEN [parent |-> 0, smaller |-> UNUSED, larger |-> UNUSED]
        ELSE IF i = W - 2 THEN [parent |-> 0, smaller |-> W - 1, larger |-> UNUSED]
        ELSE IF i = W - 1 THEN [parent |-> W - 2, smaller |-> UNUSED,
                                larger |-> UNUSED]
        ELSE UnusedNode]

\* The input B A C C ... C of W bytes, and then the bytes of tail.
TailInput(W, tail) == << 66, 65 >> \o Run(67, W - 2) \o tail

\* The stream of that input after its first W bytes, look-ahead of L bytes.
TailStream(W, L, tail) ==
    [ustream_open_input(lz77_ustream_from_memory(TailInput(W, tail),
                                                 W + Len(tail), W, L), NoFd).u
        EXCEPT !.tree = TailTree(W), !.window_currsize = W, !.lookahead = W,
               !.processed_bytes = W]

\* What follows the first W bytes: A C C C, whose A C is the key of slot 1,
\* and A D A D, whose A D goes below slot 1.
Tails == { << 65, 67, 67, 67 >>, << 65, 68, 65, 68 >> }

\* The two largest windows: with a look-ahead of 2 bytes no length can be
\* encoded, every token is a symbol and every position a token boundary.
TailWindows == {MaxSize - 1, MaxSize}

\* ustream_find_and_advance(ustream, &offset, &length, &next) on the stream
\* whose window has just become full.
TailCalls ==
    { [fn |-> "ustream_find_and_advance", step |-> "advance", tokens |-> 0,
       u |-> TailStream(w, LZ77_MIN_LOOKAHEAD_SIZE, t),
       ret |-> 0, length |-> 0, offset |-> 0] :
        w \in TailWindows, t \in Tails }

UnitInit ==
    /\ scn = Scenario(LZ77_MIN_WINDOW_SIZE, LZ77_MIN_LOOKAHEAD_SIZE, << >>,
                      "mem", Whole, 0, "mem", 0, Whole, 0, FALSE)
    /\ pc = "unit"
    /\ original = NoStream
    /\ compressed = NoStream
    /\ rfd = NoFd
    /\ wfd = NoFd
    /\ cres = 0
    /\ cerrno = 0
    /\ dcfg = [tamper |-> << "none" >>, input |-> "mem", rchunk |-> 0,
               sink |-> "mem", cap |-> 0, ndebug |-> FALSE]
    /\ cin = NoStream
    /\ restored = NoStream
    /\ drfd = NoFd
    /\ dwfd = NoFd
    /\ tok = 0
    /\ dres = 0
    /\ derrno = 0
    /\ oob = FALSE
    /\ heap = NoHeap
    /\ call \in EncodeCalls \cup WriteCalls \cup OpenCalls \cup WrapCalls
                \cup TailCalls

\* tinyhuff_encode(enc, value, &code)
Encode ==
    /\ call.fn = "tinyhuff" /\ call.step = "encode"
    /\ LET e == tinyhuff_encode(call.enc, call.value)
       IN  call' = [call EXCEPT !.step = "decode", !.nbits = e.nbits,
                                !.code = e.code]
    /\ UNCHANGED << scn, pc, cvars, dvars, oob, heap >>

\* The 16 bits peeked from a stream that holds the nbits bits of the code and
\* then the bit follow.
Peeked(code, nbits, follow) ==
    Take(BitsOf(code, nbits) \o Run(follow, PeekBits), PeekBits)

\* tinyhuff_decode(enc, &peeked, 16, &value)
Decode ==
    /\ call.fn = "tinyhuff" /\ call.step = "decode"
    /\ LET d == tinyhuff_decode(call.enc,
                                Peeked(call.code, call.nbits, call.follow))
       IN  call' = [call EXCEPT !.step = "done", !.consumed = d.consume,
                                !.decoded = d.value]
    /\ UNCHANGED << scn, pc, cvars, dvars, oob, heap >>

\* r is the result of cstream_write_bits.
BitsWritten(r) ==
    call' = [call EXCEPT !.step = "done", !.ret = r.ret, !.out = StreamBits(r.c)]

\* cstream_write_bits(cstream, &reg, startbit, nbits)
WriteBits ==
    /\ call.fn = "write_bits" /\ call.step = "write"
    /\ \E keep \in MaskOutcomes(call.nbits) :
         BitsWritten(cstream_write_bits(CachedStream(call.pre), NoFd, call.reg,
                                        call.startbit, call.nbits, keep))
    /\ UNCHANGED << scn, pc, cvars, dvars, oob, heap >>

\* ustream_open(ustream) of an input stream in memory
OpenStream ==
    /\ call.fn = "ustream_open" /\ call.step = "open"
    /\ call' = [call EXCEPT !.step = "done",
                            !.u = ustream_open_input(call.u, NoFd).u]
    /\ UNCHANGED << scn, pc, cvars, dvars, oob, heap >>

\* The result r of lz77_find_and_add.
Searched(r) ==
    call' = [call EXCEPT !.step = "done", !.u.tree = r.tree,
                         !.longest = r.longest, !.offset = r.offset,
                         !.oob = r.oob]

\* lz77_find_and_add(ustream, curr, &offset) as ustream_find_and_advance
\* calls it
FindAndAdd ==
    /\ call.fn = "lz77_find_and_add" /\ call.step = "search"
    /\ Searched(lz77_find_and_add(call.u,
                                  call.u.lookahead % call.u.window_maxsize))
    /\ UNCHANGED << scn, pc, cvars, dvars, oob, heap >>

\* The look-ahead of u is full and more input follows it.
FullLookahead(u) == u.lookahead + u.lookahead_maxsize < u.end

\* The result r of ustream_find_and_advance.
TokenReturned(r) ==
    call' = [call EXCEPT !.step = IF FullLookahead(r.u) THEN "advance" ELSE "done",
                         !.tokens = @ + 1, !.u = r.u, !.ret = r.ret,
                         !.length = r.length, !.offset = r.offset]

\* ustream_find_and_advance(ustream, &offset, &length, &next) as the loop of
\* lz77_compress calls it, while the look-ahead is full
FindAndAdvance ==
    /\ call.fn = "ustream_find_and_advance" /\ call.step = "advance"
    /\ TokenReturned(ustream_find_and_advance(call.u, NoFd))
    /\ UNCHANGED << scn, pc, cvars, dvars, oob, heap >>

UnitNext ==
    \/ Encode
    \/ Decode
    \/ WriteBits
    \/ OpenStream
    \/ FindAndAdd
    \/ FindAndAdvance

UnitSpec == UnitInit /\ [][UnitNext]_vars

(***************************************************************************)
(* Properties.                                                             *)
(***************************************************************************)
Decompressing ==
    pc \in {"decompress_open", "decompress_loop", "decompress_length",
            "decompress_ret", "aborted"}

\* Compression from memory into a growable memory buffer.
MemToMem == scn.usrc = "mem" /\ scn.csink = "mem"

\* C1: compressing from memory into a growable buffer and decompressing the
\* unaltered output into a growable buffer always comes to an end, returns
\* the length of the input and reproduces the input byte for byte.
C1_RoundTrip ==
    (MemToMem /\ dcfg.tamper = << "none" >> /\ dcfg.sink = "mem")
    => /\ (pc = "compress_ret" => cres >= 0)
       /\ pc # "aborted"
       /\ ~LengthLoopSpins
       /\ (pc = "decompress_ret" => dres = Len(scn.src) /\ Output = scn.src)

\* C2: when lz77_compress has succeeded, the first 12 bytes of its output are
\* 'L' 'Z' '7' '7', 0x10, 0, 0, 0, then W and L each as two bytes with the
\* high byte first.
C2_HeaderBytes ==
    (pc = "compress_ret" /\ cres >= 0)
    => Take(CompressedBytes, 12) =
         << 76, 90, 55, 55, 16, 0, 0, 0,
            scn.W \div 256, scn.W % 256, scn.L \div 256, scn.L % 256 >>

\* The conditions under which the claim says a stream is refused.
BadHeader(stream) ==
    \/ Len(stream) < 12
    \/ SubSeq(stream, 1, 4) # << 76, 90, 55, 55 >>
    \/ stream[5] # 16
    \/ stream[9] * 256 + stream[10] < 4
    \/ stream[11] * 256 + stream[12] < 2
    \/ stream[11] * 256 + stream[12] > stream[9] * 256 + stream[10]

\* C3: opening the compressed stream fails, lz77_decompress returning -1
\* with no output byte and no token decoded, exactly when fewer than 12
\* bytes are available, the magic or the version is wrong, window < 4,
\* lookahead < 2 or lookahead > window.
C3_OpenFailsIffBadHeader ==
    [][pc = "decompress_open"
       => IF BadHeader(Stream)
          THEN /\ pc' = "decompress_ret"
               /\ dres' = -1
               /\ restored' = restored
               /\ cin'.pos <= HeaderBytes * 8
          ELSE /\ pc' = "decompress_loop"
               /\ dres' = dres]_vars

\* lz77_decompress has refused a stream of at least 12 bytes whose
\* look-ahead size exceeds its window size.
C3_Witness ==
    /\ pc = "decompress_ret"
    /\ dres = -1
    /\ Len(Stream) >= 12
    /\ SubSeq(Stream, 1, 5) = << 76, 90, 55, 55, 16 >>
    /\ Stream[9] * 256 + Stream[10] >= 4
    /\ Stream[11] * 256 + Stream[12] > Stream[9] * 256 + Stream[10]
    /\ restored.data = << >>

\* C4: decompressing into a fixed buffer of capacity n succeeds with the
\* original bytes when the original length is at most n, returns -1 with
\* ENOMEM otherwise, and never writes a byte at an index >= n.
C4_FixedBufferDecompress ==
    (MemToMem /\ Decompressing /\ dcfg.sink = "fixed")
    => /\ Len(restored.data) <= dcfg.cap
       /\ pc # "aborted"
       /\ ~LengthLoopSpins
       /\ (pc = "decompress_ret"
             => IF Len(scn.src) <= dcfg.cap
                THEN dres = Len(scn.src) /\ restored.data = scn.src
                ELSE dres = -1 /\ derrno = ENOMEM)

\* C5: compressing into a fixed buffer smaller than the complete output
\* returns -1 with errno ENOMEM.
C5_FixedBufferTooSmall ==
    (pc = "compress_ret" /\ scn.csink = "fixed"
        /\ scn.ccap < Len(CompleteOutput(scn.W, scn.L, scn.src)))
    => cres = -1 /\ cerrno = ENOMEM

\* C6: with an input descriptor whose reads are short but never fail, the
\* compression consumes the whole source and its output decompresses to
\* the whole source.
C6_ShortReadsConsumeAll ==
    (scn.usrc = "fd" /\ scn.rfail = 0)
    => /\ (pc = "compress_ret"
             => cres >= 0 /\ original.processed_bytes = Len(scn.src))
       /\ (pc = "decompress_ret" /\ dcfg.sink = "mem" => Output = scn.src)

\* C7: when the compressed stream has been flushed to a descriptor that
\* accepts part of what it is given, the descriptor holds every byte of the
\* output, once and in order.
C7_FlushDeliversAll ==
    (pc = "compress_ret" /\ scn.csink = "fd" /\ cres >= 0)
    => wfd.written = CompleteOutput(scn.W, scn.L, scn.src)

\* The compressed stream was cut short after its header.
Truncated == dcfg.tamper[1] = "trunc" /\ dcfg.tamper[2] >= HeaderBytes

\* The stream holds all the bits of its tokens and of the terminator.
HoldsTerminator ==
    Len(Stream) * 8 >= HeaderBytes * 8 + Len(TokenBits(
        ustream_open_input(lz77_ustream_from_memory(scn.src, Len(scn.src),
                                                    scn.W, scn.L), NoFd).u))

\* C8: a stream with a valid header that ends before its terminator makes
\* lz77_decompress come to an end and return -1.
C8_TruncatedStreamFails ==
    (MemToMem /\ Decompressing /\ Truncated /\ ~HoldsTerminator)
    => /\ ~LengthLoopSpins
       /\ pc # "aborted"
       /\ (pc = "decompress_ret" => dres = -1)

\* The phrase token read in the length loop is corrupt: its length is not
\* zero and its offset is not inside the window, or its length exceeds L.
CorruptPhrase ==
    /\ pc = "decompress_length"
    /\ LET p == cstream_peek(cin, drfd, PeekBits)
           d == tinyhuff_decode(restored.length_encoder, p.bits)
       IN  /\ d.consume > 0
           /\ d.value # 0
           /\ \/ tok >= restored.window_currsize
              \/ d.value > restored.lookahead_maxsize

\* C9: a corrupt phrase token makes lz77_decompress return -1 without
\* reading or writing outside the data reconstructed so far.
C9_CorruptPhraseRejected ==
    [][CorruptPhrase
       => /\ pc' = "decompress_ret"
          /\ dres' = -1
          /\ oob' = oob
          /\ restored' = restored]_vars

\* A read of the input descriptor failed after the one made on opening.
ReadFailedInRefill ==
    scn.usrc = "fd" /\ rfd.failat > 1 /\ rfd.calls >= rfd.failat

\* C10: a read that fails while the compressor refills its buffer makes
\* lz77_compress return -1.
C10_RefillErrorFails ==
    (pc = "compress_ret" /\ ReadFailedInRefill) => cres = -1

\* The write that the descriptor was set to refuse has been made.
WriteFailed(fd) == fd.failat > 0 /\ fd.calls >= fd.failat

\* The output is shorter than the buffer of the descriptor-backed stream, so
\* that the only flush is the one made on closing.
FlushedOnCloseOnly ==
    /\ Len(CompleteOutput(scn.W, scn.L, scn.src)) <= CStreamFdBufferSize
    /\ Len(scn.src) <= 10 * scn.W

\* C11: a write that fails in the flush made on closing makes lz77_compress
\* (descriptor as the compressed sink) and lz77_decompress (descriptor as the
\* decompressed sink) return -1.
C11_CloseFlushErrorFails ==
    /\ (pc = "compress_ret" /\ scn.usrc = "mem" /\ scn.csink = "fd"
          /\ FlushedOnCloseOnly /\ WriteFailed(wfd))
       => cres = -1
    /\ (pc = "decompress_ret" /\ MemToMem /\ dcfg.sink = "fd"
          /\ FlushedOnCloseOnly /\ WriteFailed(dwfd))
       => dres = -1

\* The constructor of the input stream has returned.
Created == pc \in {"create_ret", "created"}

\* C12: an input stream, from memory or from a descriptor, is refused with
\* NULL and errno EINVAL whenever the window is smaller than 4, the lookahead
\* smaller than 2, or the lookahead larger than the window.
C12_InvalidSizesRefused ==
    (Created /\ (\/ scn.W < LZ77_MIN_WINDOW_SIZE
                 \/ scn.L < LZ77_MIN_LOOKAHEAD_SIZE
                 \/ scn.L > scn.W))
    => original = NoStream /\ cerrno = EINVAL

\* The bytes the sink of the compression holds: the file written through the
\* descriptor, or the valid bytes of the memory buffer.
Delivered == IF scn.csink = "fd" THEN wfd.written ELSE compressed.data

\* C13: on success lz77_compress returns the number of bytes delivered to the
\* sink, 12 + ceil(token bits with the terminator / 8): the size of the file
\* for a descriptor, the number of valid bytes of the buffer for memory.
C13_ReturnsBytesDelivered ==
    (pc = "compress_ret" /\ cres >= 0 /\ scn.usrc = "mem")
    => /\ cres = Len(CompleteOutput(scn.W, scn.L, scn.src))
       /\ cres = Len(Delivered)

\* Header and terminator alone: after the 12 bytes of the header the type
\* bit of a phrase, a zero offset of window bits and the 6-bit code of the
\* length 0, padded with zero bits to whole bytes.
EmptyOutput(W, L) ==
    LET nbits == LZ77_TYPE_BITS + number_of_bits(W - 1)
                     + MAX_CODE_BITS
    IN  HeaderOf(W, L)
            \o BytesOfBits(<< 1 >> \o Zeros(nbits - 1), (nbits + 7) \div 8)

\* C14: compressing an empty input yields the 12-byte header followed by the
\* terminator token (1 + wbits + 6 bits, zero-padded) and nothing else, and
\* decompressing that output returns 0 bytes.
C14_EmptyInput ==
    /\ (pc = "compress_ret" /\ cres >= 0 /\ scn.src = << >>)
       => /\ cres = Len(EmptyOutput(scn.W, scn.L))
          /\ Delivered = EmptyOutput(scn.W, scn.L)
    /\ (pc = "decompress_ret" /\ scn.src = << >> /\ MemToMem
          /\ dcfg.tamper = << "none" >>)
       => dres = 0 /\ Output = << >>

\* Every read returns all that is asked, up to the end of the input.
FullReads == scn.rchunk = Whole /\ scn.rfail = 0

\* C15: with full reads, compressing from a descriptor produces the same
\* bytes as compressing the same input from memory with the same (W, L),
\* also for inputs longer than the buffer of 10 * (W + L) bytes, where the
\* window is moved to the start of the buffer and the tree array rotated.
C15_DescriptorSameAsMemory ==
    (pc = "compress_ret" /\ scn.csink = "mem" /\ FullReads)
    => /\ cres = Len(CompleteOutput(scn.W, scn.L, scn.src))
       /\ Delivered = CompleteOutput(scn.W, scn.L, scn.src)

\* A mixed input longer than the buffer was compressed from a descriptor,
\* which took more than one refill.
C15_Witness ==
    /\ pc = "compress_ret" /\ scn.csink = "mem" /\ scn.usrc = "fd" /\ FullReads
    /\ scn.src = Mix(LongLen)
    /\ Len(scn.src) > 10 * (scn.W + scn.L)
    /\ rfd.calls > 2
    /\ Delivered = CompleteOutput(scn.W, scn.L, scn.src)

\* C16: when decompressing to a descriptor, the bytes written to it, by the
\* flushes made when the buffer of 10 * W bytes fills and by the flush made
\* on closing, are together the original data, and the count returned is the
\* number of bytes written.
C16_DescriptorOutputComplete ==
    (pc = "decompress_ret" /\ MemToMem /\ dcfg.sink = "fd"
        /\ dcfg.tamper = << "none" >> /\ dres >= 0)
    => dwfd.written = scn.src /\ dres = Len(dwfd.written)

\* The stream of that name as the caller holds it.
StreamOf(name) ==
    CASE name = "original" -> original
      [] name = "compressed" -> compressed
      [] name = "cin" -> cin
      [] name = "restored" -> restored

\* The descriptors the streams were given.
Descriptors == {3, 4, 5, 6}

\* C17: freeing a memory-backed stream neither releases nor modifies its
\* data buffer, which stays with the caller; freeing a descriptor-backed
\* stream releases the internal buffer and leaves the descriptor open.
C17_FreeKeepsCallerBuffer ==
    [][(pc # "freed" /\ pc' = "freed")
       => /\ \A name \in StreamNames :
               StreamOf(name) # NoStream
               => IF StreamOf(name).fd < 0
                  THEN /\ << name, "data" >> \notin heap'.released
                       /\ heap'.data[name] = StreamOf(name).data
                  ELSE << name, "data" >> \in heap'.released
          /\ heap'.closed \cap Descriptors = {}]_vars

\* Freed: the memory buffer that holds the compressed bytes is with the
\* caller, the internal buffer of the descriptor-backed output is released.
C17_Witness ==
    /\ pc = "freed"
    /\ scn.csink = "mem" /\ dcfg.sink = "fd"
    /\ << "compressed", "object" >> \in heap.released
    /\ << "compressed", "data" >> \notin heap.released
    /\ Len(heap.data["compressed"]) > 12
    /\ << "restored", "data" >> \in heap.released
    /\ heap.closed = {}

\* The field of the register that cstream_write_bits was asked to write.
FieldOf(c) == SubSeq(c.reg, c.startbit + 1, c.startbit + c.nbits)

\* C18: for every valid (W, L) and every length v the encoder can encode,
\* tinyhuff_decode applied to 16 peeked bits that begin with the code of v
\* returns v and the number of bits tinyhuff_encode returned.
C18_LengthCodeRoundTrip ==
    (call.fn = "tinyhuff" /\ call.step = "done")
    => call.decoded = call.value /\ call.consumed = call.nbits

\* C19: for every valid (W, L) and every length that can be encoded, the
\* code, 6-bit prefix and suffix of diff_nbits bits, has at most 16 bits.
C19_LengthCodeFits16 ==
    (call.fn = "tinyhuff" /\ call.step # "encode") => call.nbits <= PeekBits

\* C20: cstream_write_bits(reg, startbit, n) appends to the bit stream the n
\* bits of the register from startbit on, for every n <= 64 with
\* startbit + n <= 64, the tokens of 32 bits and more included.
C20_WriteBitsAppendsField ==
    (call.fn = "write_bits" /\ call.step = "done")
    => call.ret = 0 /\ call.out = call.pre \o FieldOf(call)

\* What the next call of ustream_find_and_advance in the loop of
\* lz77_compress returns, and whether it is a phrase.
NextToken == ustream_find_and_advance(original, rfd)
PhraseNext == pc = "compress_loop" /\ NextToken.ret > 0 /\ NextToken.length # 0

\* The token tk is a phrase of the window and the look-ahead of the stream u.
PhraseOf(u, tk) ==
    /\ tk.offset < u.window_currsize
    /\ u.length_encoder.min_value <= tk.length
    /\ tk.length <= u.lookahead_currsize
    /\ u.lookahead_currsize <= u.lookahead_maxsize
    /\ \A j \in 0..(tk.length - 1) :
          ByteAt(u.data, u.window + tk.offset + j) = ByteAt(u.data, u.lookahead + j)

\* C21: every phrase (offset, length) returned by ustream_find_and_advance
\* has, for the window and the look-ahead as they were before the call,
\* offset < wsize, min_len <= length <= lsize <= L, and the length bytes from
\* the offset in the window equal to those of the look-ahead.
C21_PhraseInWindow == PhraseNext => PhraseOf(original, NextToken)

\* A phrase of a window that has slid, whose match runs past the end of the
\* window into the look-ahead.
C21_Witness ==
    /\ PhraseNext /\ PhraseOf(original, NextToken)
    /\ original.window > 0
    /\ NextToken.offset > 0
    /\ NextToken.offset + NextToken.length > original.window_currsize

\* The longest common prefix of the look-ahead with the window positions at
\* offsets k, k+1, ... of the window.
RECURSIVE LongestFrom(_, _)
LongestFrom(u, k) ==
    IF k >= u.window_currsize THEN 0
    ELSE Max(MatchFrom(u.data, u.lookahead, u.window + k, u.lookahead_currsize, 0),
             LongestFrom(u, k + 1))

\* part_005 lines 332-336: the search whose result becomes the token.
Searching ==
    /\ pc = "compress_loop"
    /\ original.lookahead_currsize > 0
    /\ original.window_currsize > 0

FirstSearch == lz77_find_and_add(original, original.lookahead % original.window_maxsize)

\* The first window offset the tree can hold at a search inside the for loop:
\* once the window is full, the slot of the oldest position is the slot of the
\* look-ahead, and line 354 has emptied it.
OldestKept(u) == IF u.window_currsize = u.window_maxsize THEN 1 ELSE 0

\* part_005 lines 351-436: every search of the for loop (its result is
\* dropped) returns the longest match over the window, whole or from
\* OldestKept on.  st, i, count as in AdvanceLoop.
RECURSIVE LoopSearches(_, _, _, _)
LoopSearchIs(s1, fa, i, count, whole) ==
    /\ (i < count - 1 /\ ~s1.err /\ s1.u.lookahead_currsize > 0)
           => fa.longest = LongestFrom(s1.u, IF whole THEN 0 ELSE OldestKept(s1.u))
    /\ LoopSearches(AddPosition(s1, fa, i, count), i + 1, count, whole)

LoopSearchAt(s1, i, count, whole) ==
    LoopSearchIs(s1, lz77_find_and_add(s1.u, s1.u.lookahead % s1.u.window_maxsize),
                 i, count, whole)

LoopSearches(st, i, count, whole) ==
    IF i >= count \/ st.err THEN TRUE
    ELSE LoopSearchAt(KeepLookahead(st, SlideWindow(DropOldest(st.u, i, count))),
                      i, count, whole)

EncodableLength(u, fa) ==
    IF fa.longest = 0 \/ ~tinyhuff_can_encode(u.length_encoder, fa.longest)
    THEN 0 ELSE fa.longest

SearchesOfToken(u, fa, found, whole) ==
    LoopSearches([u |-> [u EXCEPT !.tree = fa.tree], rfd |-> rfd,
                  err |-> FALSE, oob |-> fa.oob],
                 0, IF found = 0 THEN 1 ELSE found, whole)

LoopSearchesOf(u, fa, whole) == SearchesOfToken(u, fa, EncodableLength(u, fa), whole)

\* C22: the search that produces a token returns the longest common prefix of
\* the look-ahead with any position of the window; a search inside the for
\* loop, whose result is dropped, returns the longest over the window without
\* its oldest position once the window is full.
C22_LongestMatch ==
    Searching =>
        /\ FirstSearch.longest = LongestFrom(original, 0)
        /\ LoopSearchesOf(original, FirstSearch, FALSE)

\* C22 as stated: every call of lz77_find_and_add with a non-empty window
\* returns the longest match over the whole window.
C22_LongestEveryCall ==
    Searching =>
        /\ FirstSearch.longest = LongestFrom(original, 0)
        /\ LoopSearchesOf(original, FirstSearch, TRUE)

C22_Witness ==
    /\ Searching
    /\ original.window > 0
    /\ FirstSearch.longest = LongestFrom(original, 0)
    /\ FirstSearch.longest >= 2
    /\ FirstSearch.longest > MatchFrom(original.data, original.lookahead,
                                       original.lookahead - 1,
                                       original.lookahead_currsize, 0)
    /\ LoopSearchesOf(original, FirstSearch, FALSE)
    /\ ~LoopSearchesOf(original, FirstSearch, TRUE)

\* The slots linked below slot n, n included; fuel bounds the descent.
RECURSIVE Subtree(_, _, _)
Subtree(tree, n, fuel) ==
    IF n = UNUSED \/ fuel = 0 \/ n \notin DOMAIN tree THEN {}
    ELSE {n} \cup Subtree(tree, tree[n].smaller, fuel - 1)
             \cup Subtree(tree, tree[n].larger, fuel - 1)

Linked(u, tree) == Subtree(tree, tree[u.window_maxsize].larger, u.window_maxsize + 1)

\* The position slot s stands for when top is the last position inserted.
PosOf(u, top, s) == top - ((top - s) % u.window_maxsize)

\* The first index below lookahead_maxsize at which the keys at p and q
\* differ or one of them has reached the end of the input.
RECURSIVE KeyDiff(_, _, _, _)
KeyDiff(u, p, q, i) ==
    IF /\ i < u.lookahead_maxsize
       /\ p + i < u.end /\ q + i < u.end
       /\ ByteAt(u.data, p + i) = ByteAt(u.data, q + i)
    THEN KeyDiff(u, p, q, i + 1)
    ELSE i

\* Lexicographic order of the keys at p and q, a key cut by the end of the
\* input being smaller than its extensions.
KeyBelow(u, p, q, i) ==
    /\ i < u.lookahead_maxsize
    /\ q + i < u.end
    /\ (p + i < u.end => ByteAt(u.data, p + i) < ByteAt(u.data, q + i))

\* The order lz77_find_and_add keeps: the keys differ, and where both have a
\* byte the smaller key has the smaller one.
KeyBefore(u, p, q, i) ==
    /\ i < u.lookahead_maxsize
    /\ (p + i < u.end /\ q + i < u.end) => ByteAt(u.data, p + i) < ByteAt(u.data, q + i)

KeyOrder(u, p, q, whole) ==
    IF whole THEN KeyBelow(u, p, q, KeyDiff(u, p, q, 0))
    ELSE KeyBefore(u, p, q, KeyDiff(u, p, q, 0))

\* The slots linked from the sentinel form a binary search tree.
IsSearchTree(u, tree, top, whole) ==
    \A x \in Linked(u, tree) :
        /\ \A m \in Subtree(tree, tree[x].smaller, u.window_maxsize) :
               KeyOrder(u, PosOf(u, top, m), PosOf(u, top, x), whole)
        /\ \A m \in Subtree(tree, tree[x].larger, u.window_maxsize) :
               KeyOrder(u, PosOf(u, top, x), PosOf(u, top, m), whole)

\* part_005 lines 351-436: the tree after every lz77_tree_delete_node and
\* every lz77_find_and_add of the for loop.  st, i, count as in AdvanceLoop.
RECURSIVE LoopTrees(_, _, _, _)
LoopTreeAdded(s1, fa, i, count, whole) ==
    /\ (i < count - 1 /\ ~s1.err /\ s1.u.lookahead_currsize > 0)
           => IsSearchTree(s1.u, fa.tree, s1.u.lookahead, whole)
    /\ LoopTrees(AddPosition(s1, fa, i, count), i + 1, count, whole)

LoopTreeSlid(s1, i, count, whole) ==
    LoopTreeAdded(s1, lz77_find_and_add(s1.u, s1.u.lookahead % s1.u.window_maxsize),
                  i, count, whole)

LoopTreeDropped(st, u1, i, count, whole) ==
    /\ IsSearchTree(u1, u1.tree, u1.lookahead, whole)
    /\ LoopTreeSlid(KeepLookahead(st, SlideWindow(u1)), i, count, whole)

LoopTrees(st, i, count, whole) ==
    IF i >= count \/ st.err THEN TRUE
    ELSE LoopTreeDropped(st, DropOldest(st.u, i, count), i, count, whole)

TreesOfToken(u, fa, found, whole) ==
    /\ IsSearchTree(u, fa.tree, u.lookahead, whole)
    /\ LoopTrees([u |-> [u EXCEPT !.tree = fa.tree], rfd |-> rfd,
                  err |-> FALSE, oob |-> fa.oob],
                 0, IF found = 0 THEN 1 ELSE found, whole)

LoopTreesOf(u, fa, whole) == TreesOfToken(u, fa, EncodableLength(u, fa), whole)

\* C23: after every lz77_find_and_add and every lz77_tree_delete_node of the
\* compression the slots linked from the sentinel form a binary search tree
\* under the lexicographic order of the keys of their positions, two keys
\* being compared on the bytes both have before the end of the input.
C23_SearchTreeOrder == Searching => LoopTreesOf(original, FirstSearch, FALSE)

\* C23 as stated: the order is that of the whole keys, a key cut by the end
\* of the input being smaller than the keys it is a prefix of.
C23_SearchTreeWholeKeys == Searching => LoopTreesOf(original, FirstSearch, TRUE)

C23_Witness ==
    /\ Searching
    /\ original.window > 0
    /\ Cardinality(Linked(original, FirstSearch.tree)) >= 4
    /\ FirstSearch.longest >= 2
    /\ LoopTreesOf(original, FirstSearch, FALSE)

\* A token boundary of the compression with a window.
Boundary == pc = "compress_loop" /\ original.window_currsize > 0

SlotOf(u, k) == (u.window + k) % u.window_maxsize

WindowSlots(u) == { SlotOf(u, k) : k \in 0..(u.window_currsize - 1) }

\* The number of visits of a walk of the tree from slot n.
RECURSIVE NodeCount(_, _, _)
NodeCount(tree, n, fuel) ==
    IF n = UNUSED \/ fuel = 0 \/ n \notin DOMAIN tree THEN 0
    ELSE 1 + NodeCount(tree, tree[n].smaller, fuel - 1)
           + NodeCount(tree, tree[n].larger, fuel - 1)

\* Every linked slot is the slot of a window position and is met once.
LinkedOnce(u) ==
    /\ Linked(u, u.tree) \subseteq WindowSlots(u)
    /\ NodeCount(u.tree, u.tree[u.window_maxsize].larger, u.window_maxsize + 1)
           = Cardinality(Linked(u, u.tree))

\* The keys at p and q agree on lookahead_maxsize bytes, or on every byte up
\* to the end of the input; i is KeyDiff of p and q.
MergedKeys(u, p, q, i) ==
    i >= u.lookahead_maxsize \/ p + i >= u.end \/ q + i >= u.end

\* The window position at offset k is linked, or a later one that was merged
\* with it is.
Represented(u, k) ==
    \/ SlotOf(u, k) \in Linked(u, u.tree)
    \/ \E j \in (k + 1)..(u.window_currsize - 1) :
          /\ SlotOf(u, j) \in Linked(u, u.tree)
          /\ MergedKeys(u, u.window + k, u.window + j,
                        KeyDiff(u, u.window + k, u.window + j, 0))

\* C24: at every token boundary of the compression every linked slot stands
\* for one window position and is linked once, and every window position is
\* linked or has the key of a later window position that is linked.
C24_WindowRepresented ==
    Boundary =>
        /\ LinkedOnce(original)
        /\ \A k \in 0..(original.window_currsize - 1) : Represented(original, k)

\* C24 as stated: every window position is linked, exactly once.
C24_EveryPositionLinked ==
    Boundary =>
        /\ LinkedOnce(original)
        /\ WindowSlots(original) \subseteq Linked(original, original.tree)

C24_Witness ==
    /\ Boundary
    /\ original.window > 0
    /\ original.lookahead_currsize = original.lookahead_maxsize
    /\ LinkedOnce(original)
    /\ Cardinality(Linked(original, original.tree)) >= 3
    /\ \E k \in 0..(original.window_currsize - 1) :
          /\ SlotOf(original, k) \notin Linked(original, original.tree)
          /\ Represented(original, k)

\* The slot the search matched: the returned offset is that of its position.
MatchedSlot(u, fa) == (u.window + fa.offset) % u.window_maxsize

\* cstream_internal.h lines 296-308: curr has taken the place of test in the
\* tree t, in which curr had been deleted; r is the tree after the search.
TookOver(t, r, test, curr, W) ==
    /\ r[curr].parent = t[test].parent
    /\ r[curr].smaller = t[test].smaller
    /\ r[curr].larger = t[test].larger
    /\ r[test].parent = UNUSED
    /\ r[t[test].parent].smaller = curr \/ r[t[test].parent].larger = curr
    /\ test \notin Subtree(r, r[W].larger, W + 1)
    /\ curr \in Subtree(r, r[W].larger, W + 1)

\* The look-ahead matches the position of a linked slot on all its bytes.
FullMatch(u, fa) ==
    /\ fa.longest = u.lookahead_currsize
    /\ MatchedSlot(u, fa) # u.lookahead % u.window_maxsize

DistinctKeys(u) ==
    \A k, j \in 0..(u.window_currsize - 1) :
        (k < j /\ {SlotOf(u, k), SlotOf(u, j)} \subseteq Linked(u, u.tree))
            => KeyDiff(u, u.window + k, u.window + j, 0) < u.lookahead_maxsize

\* C25: at every token boundary of the compression no two linked slots have
\* the same key of lookahead_maxsize bytes, and when the look-ahead matches
\* the position of a linked slot on all its bytes the new slot takes the
\* parent and the children of that slot, which is unlinked.
C25_DuplicatesMerged ==
    /\ Boundary => DistinctKeys(original)
    /\ (Searching /\ FullMatch(original, FirstSearch)) =>
           TookOver(lz77_tree_delete_node(original.tree,
                        original.lookahead % original.window_maxsize),
                    FirstSearch.tree, MatchedSlot(original, FirstSearch),
                    original.lookahead % original.window_maxsize,
                    original.window_maxsize)

C25_Witness ==
    /\ Searching /\ FullMatch(original, FirstSearch)
    /\ original.window > 0
    /\ original.lookahead_currsize = original.lookahead_maxsize
    /\ DistinctKeys(original)
    /\ Cardinality(Linked(original, FirstSearch.tree)) >= 3
    /\ FirstSearch.tree[original.lookahead % original.window_maxsize].smaller # UNUSED

\* part_005 lines 411-414: the tree array after the compaction of a buffer
\* whose window starts x slots into the array.
Rotated(v, size, x) == shift_tree_indices(rotate_tree_array(v, 0, size, x), size, x)

\* A link after a rotation by x: an index below size moves x slots down the
\* circle, UNUSED and the index of the sentinel stay.
MovedLink(j, size, x) ==
    IF j = UNUSED \/ j = size THEN j ELSE (j - x) % size

MovedNode(n, size, x) ==
    [parent |-> MovedLink(n.parent, size, x),
     smaller |-> MovedLink(n.smaller, size, x),
     larger |-> MovedLink(n.larger, size, x)]

IsRotation(v, r, size, x) ==
    /\ DOMAIN r = DOMAIN v
    /\ \A i \in 0..(size - 1) : r[(i - x) % size] = MovedNode(v[i], size, x)
    /\ r[size] = MovedNode(v[size], size, x)

\* The largest window whose tree is rotated by every shift.
RotW == 16

\* The shift of the compaction at the look-ahead of u.
ShiftOf(u) == u.window % u.window_maxsize

\* C26: for every tree of the compression and every shift x below the window
\* size, rotate_tree_array followed by shift_tree_indices moves the record of
\* slot i to slot (i - x) mod W with its links below W moved the same way,
\* and leaves UNUSED links, links to the sentinel and the slot of the
\* sentinel where they are.
C26_RotationMovesSlots ==
    (Boundary /\ original.window_maxsize <= RotW) =>
        \A x \in 0..(original.window_maxsize - 1) :
            IsRotation(original.tree,
                       Rotated(original.tree, original.window_maxsize, x),
                       original.window_maxsize, x)

C26_Witness ==
    /\ Boundary
    /\ original.fd >= 0
    /\ original.window_maxsize >= 4
    /\ ShiftOf(original) > 1
    /\ original.window_maxsize % ShiftOf(original) # 0
    /\ original.lookahead + original.lookahead_currsize = original.end
    /\ Cardinality(Linked(original, original.tree)) >= 3
    /\ Rotated(original.tree, original.window_maxsize, ShiftOf(original)) # original.tree
    /\ IsRotation(original.tree,
                  Rotated(original.tree, original.window_maxsize, ShiftOf(original)),
                  original.window_maxsize, ShiftOf(original))

\* The position in the input or the output of the first byte of the window.
LogicalStart(u) == u.processed_bytes - u.window_currsize

WindowTracked(u) ==
    /\ u.window_currsize = Min(u.window_maxsize, u.processed_bytes)
    /\ u.window_currsize <= u.window_maxsize

\* The window of the input stream lies at its logical start: in the buffer of
\* a memory stream, and in the bytes read from the descriptor, of which the
\* buffer holds the last u.end.
PlacedInInput(u, fd) ==
    IF u.fd >= 0 THEN fd.pos - u.end + u.window = LogicalStart(u)
    ELSE u.window = LogicalStart(u)

\* The window of the output stream is the end of the data, and lies at its
\* logical start: in the buffer of a memory stream, and after the bytes
\* flushed to a descriptor that accepts every byte it is given.
PlacedInOutput(u, fd) ==
    /\ u.window + u.window_currsize = u.end
    /\ u.fd < 0 => u.window = LogicalStart(u)
    /\ (u.fd >= 0 /\ fd.chunk = Whole) => Len(fd.written) + u.window = LogicalStart(u)

Compressing == pc = "compress_loop"

Restoring == pc \in {"decompress_loop", "decompress_length"}

WindowSound ==
    /\ Compressing => WindowTracked(original) /\ PlacedInInput(original, rfd)
    /\ Restoring => WindowTracked(restored) /\ PlacedInOutput(restored, dwfd)

\* The logical start of the window of u does not move back from u to v, and
\* moves on only to a full window.
StartAdvances(u, v) ==
    /\ LogicalStart(v) >= LogicalStart(u)
    /\ LogicalStart(v) > LogicalStart(u) => v.window_currsize = v.window_maxsize

WindowStep ==
    /\ (Compressing /\ Compressing') => StartAdvances(original, original')
    /\ (Restoring /\ Restoring') => StartAdvances(restored, restored')

\* C27: on both sides, after every token the size of the window is the
\* smaller of W and the number of bytes processed, at most W, the window
\* starts processed_bytes - wsize bytes into the data, and from one token to
\* the next its start never moves back and moves on only with a full window.
C27_WindowFollows == [][WindowSound' /\ WindowStep]_vars

C27_Witness ==
    /\ Restoring
    /\ restored.fd >= 0
    /\ dwfd.chunk = Whole
    /\ Len(dwfd.written) > 0
    /\ restored.window > 0
    /\ restored.processed_bytes > restored.window_maxsize
    /\ WindowTracked(restored) /\ PlacedInOutput(restored, dwfd)

\* The bytes of the memory input not yet consumed.
Remaining == Len(scn.src) - original.processed_bytes

FromMemory == Compressing /\ original.fd < 0

LookaheadSound ==
    FromMemory =>
        /\ original.lookahead_currsize = Min(original.lookahead_maxsize, Remaining)
        /\ original.lookahead_currsize < original.lookahead_maxsize
               => Remaining < original.lookahead_maxsize
        /\ original.lookahead_currsize = 0 <=> Remaining = 0

LookaheadStep ==
    (FromMemory /\ FromMemory'
        /\ original.lookahead_currsize < original.lookahead_maxsize)
    => original'.lookahead_currsize <= original.lookahead_currsize

\* C28: compressing from memory, at every token boundary the look-ahead holds
\* min(L, |s| - processed_bytes) bytes; it holds fewer than L only when fewer
\* than L bytes remain, never grows once it is below L, and is empty exactly
\* when every byte has been consumed.
C28_LookaheadFollows == [][LookaheadSound' /\ LookaheadStep]_vars

C28_Witness ==
    /\ FromMemory
    /\ original.processed_bytes > original.window_maxsize
    /\ original.lookahead_maxsize >= 3
    /\ original.lookahead_currsize > 0
    /\ original.lookahead_currsize < original.lookahead_maxsize - 1
    /\ original.lookahead_currsize = Remaining

\* The longest phrase saved at every offset of every window of the
\* decompression.
CopyLen == 8

\* part_005 lines 498-512 seen from the stream sv.u that ustream_save leaves:
\* the length bytes of the phrase, which start at e, repeat the data offset
\* bytes after the start of the window of wsize bytes that ended at e.
CopiedFromWindow(out, e, wsize, offset, length) ==
    \A j \in 0..(length - 1) :
        ByteAt(out, e + j) = ByteAt(out, e - wsize + offset + j)

\* The window the phrase was copied from is the one the stream had.
WindowKept(u, out, e) ==
    \A k \in 0..(u.window_currsize - 1) :
        ByteAt(out, e - u.window_currsize + k) = ByteAt(u.data, u.window + k)

PhraseSaved(u, sv, offset, length) ==
    sv.ret = 0 =>
        /\ sv.u.end = sv.u.window + sv.u.window_currsize
        /\ WindowKept(u, sv.u.data, sv.u.end - length)
        /\ CopiedFromWindow(sv.u.data, sv.u.end - length, u.window_currsize,
                            offset, length)
        /\ offset = u.window_currsize - 1 =>
               \A j \in 0..(length - 1) :
                   ByteAt(sv.u.data, sv.u.end - length + j)
                       = ByteAt(u.data, u.end - 1)

\* C29: for every window of the decompression, every offset inside it and
\* every length, ustream_save appends the bytes that follow the offset in the
\* window, reading the bytes it has just written when offset + length passes
\* the end of the window; with the last offset of the window it repeats the
\* last byte.
C29_OverlappingCopy ==
    (Restoring /\ restored.window_currsize > 0) =>
        \A offset \in 0..(restored.window_currsize - 1) :
            \A length \in 1..Min(restored.lookahead_maxsize, CopyLen) :
                \A junk \in JunkBytes :
                    PhraseSaved(restored,
                                ustream_save(restored, dwfd, offset, length, 0, junk),
                                offset, length)

C29_Witness ==
    /\ pc = "decompress_length"
    /\ restored.window > 0
    /\ restored.window_currsize >= 3
    /\ tok = restored.window_currsize - 2
    /\ restored.lookahead_maxsize >= 4
    /\ ByteAt(restored.data, restored.end - 1) # ByteAt(restored.data, restored.end - 2)
    /\ PhraseSaved(restored, ustream_save(restored, dwfd, tok, 4, 0, 0), tok, 4)
    /\ ustream_save(restored, dwfd, tok, 4, 0, 0).ret = 0

\* The bits of the token tk of the stream u: 9 for a symbol, the type bit,
\* the offset and the length code for a phrase.
BitsOfToken(u, tk) ==
    IF tk.length = 0 THEN 1 + LZ77_NEXT_BITS
    ELSE 1 + u.window_nbits + tinyhuff_encode(u.length_encoder, tk.length).nbits

\* lz77_compress from one token boundary to the next: the count grows by the
\* bits of the token written in between.
TokenCounted ==
    (Compressing /\ Compressing') =>
        lz77_cstream_get_processed_bits(compressed')
            = lz77_cstream_get_processed_bits(compressed)
                  + BitsOfToken(original, NextToken)

SourceBit(fd, k) == bit_get(fd.content, k)

SourceBits(fd, from, n) == [k \in 1..n |-> SourceBit(fd, from + k - 1)]

\* The decompression reads its input from a descriptor.
Reading == pc \in {"decompress_loop", "decompress_length"} /\ cin.fd >= 0

\* The bits of the buffer not yet consumed are the bits of the source from
\* the logical position on, up to the byte the descriptor has reached: none
\* was dropped, none is there twice.
Unread(c, fd) ==
    /\ c.pos <= c.end
    /\ fd.pos * 8 = c.processed_bits + (c.end - c.pos)
    /\ \A k \in 0..(c.end - c.pos - 1) :
           bit_get(c.data, c.pos + k) = SourceBit(fd, c.processed_bits + k)

\* p is the result of cstream_peek(c, fd, n).
PeekedFrom(c, fd, p) ==
    p.n >= 0 =>
        /\ p.bits = SourceBits(fd, c.processed_bits, p.n)
        /\ p.c.processed_bits = c.processed_bits
        /\ p.c.processed_bits - p.c.pos + p.c.end
               >= c.processed_bits - c.pos + c.end
        /\ Unread(p.c, p.rfd)

\* r is the result of cstream_read(c, fd, n).
ReadFrom(c, fd, n, r) ==
    r.n >= 0 =>
        /\ r.bits = SourceBits(fd, c.processed_bits, r.n)
        /\ r.c.processed_bits = c.processed_bits + r.n
        /\ r.n = Min(n, Len(fd.content) * 8 - c.processed_bits)
        /\ Unread(r.c, r.rfd)

\* The numbers of bits lz77_decompress asks for, and 3.
PeekSizes == {LZ77_TYPE_BITS, 3, LZ77_NEXT_BITS, PeekBits}

\* C31: wherever the peeks, consumes and reads of a decompression from a
\* descriptor have led, with reads of any size, the unread bits of the buffer
\* are those of the source at the logical position, a peek returns bits of
\* the source from that position on and leaves the position and
\* processed_bits as they are, a read returns them and moves on by their
\* number, and the compaction and the refill lose or repeat no unread bit.
C31_ReaderFollowsSource ==
    Reading =>
        /\ Unread(cin, drfd)
        /\ \A n \in PeekSizes :
               /\ PeekedFrom(cin, drfd, cstream_peek(cin, drfd, n))
               /\ ReadFrom(cin, drfd, n, cstream_read(cin, drfd, n))

C31_Witness ==
    /\ Reading
    /\ drfd.chunk = 1
    /\ cin.pos % 8 # 0
    /\ cin.pos >= 8
    /\ cin.pos + PeekBits > cin.end
    /\ Len(drfd.content) > drfd.pos + 1
    /\ cstream_read(cin, drfd, PeekBits).n = PeekBits
    /\ ReadFrom(cin, drfd, PeekBits, cstream_read(cin, drfd, PeekBits))

\* The decompression reads its input from a memory buffer.
ReadingMemory ==
    /\ pc \in {"decompress_open", "decompress_loop", "decompress_length"}
    /\ cin.fd < 0

\* The reader c of a buffer of c.size bytes is inside it.
InsideBuffer(c) ==
    /\ c.end = 8 * c.size
    /\ c.size = Len(c.data)
    /\ c.pos <= c.end

\* p is the result of cstream_peek(c, fd, n): the last bit read is below end.
PeekInside(c, n, p) ==
    /\ p.n >= 0
    /\ c.pos + p.n <= c.end
    /\ p.n = Min(n, c.end - c.pos)
    /\ InsideBuffer(p.c)

\* C32: decompressing from a memory buffer of size bytes, whatever it holds,
\* the reader keeps pos <= end = 8 * size and no peek or read takes a bit at
\* an index from 8 * size on.
C32_ReaderInsideBuffer ==
    ReadingMemory =>
        /\ InsideBuffer(cin)
        /\ \A n \in PeekSizes :
               /\ PeekInside(cin, n, cstream_peek(cin, drfd, n))
               /\ PeekInside(cin, n, cstream_read(cin, drfd, n))

C32_Witness ==
    /\ ReadingMemory
    /\ pc = "decompress_length"
    /\ dcfg.tamper # << "none" >>
    /\ InsideBuffer(cin)
    /\ cin.pos > HeaderBytes * 8
    /\ cin.end - cin.pos < MAX_CODE_BITS
    /\ cstream_peek(cin, drfd, PeekBits).n < MAX_CODE_BITS

\* ---------------------------------------------------------------------
\* The terminator token (lz77_compress, the write after the loop; the
\* break on a zero length in lz77_decompress).

\* The bits of the terminator: type bit 1, window_nbits zero bits, 000000.
TerminatorBits ==
    TokenField(TerminatorToken(original.window_nbits, original.length_encoder))

\* bits are the last token of the stream bytes: they start at bit `at` and
\* less than one byte of padding follows them.
Emitted(bytes, at, bits) ==
    /\ Len(bytes) * 8 >= at + Len(bits)
    /\ Len(bytes) * 8 < at + Len(bits) + 8
    /\ \A k \in 1..Len(bits) : bit_get(bytes, at + k - 1) = bits[k]

\* What the decoder makes of the length code of the token tk of u.
DecodedAs(u, tk) ==
    tinyhuff_decode(u.length_encoder,
        Take(BitsOf(tinyhuff_encode(u.length_encoder, tk.length).code,
                    tinyhuff_encode(u.length_encoder, tk.length).nbits),
             PeekBits))

\* The length code lz77_decompress is about to decode.
EndCode ==
    tinyhuff_decode(restored.length_encoder,
                    cstream_peek(cin, drfd, PeekBits).bits)

\* The decoder is at a length code that decodes to 0.
AtZeroLength ==
    /\ pc = "decompress_length"
    /\ cstream_peek(cin, drfd, PeekBits).n >= 0
    /\ ~EndCode.failed
    /\ EndCode.consume > 0
    /\ EndCode.value = 0

\* C33: a compression that returns a count delivers the terminator as the
\* last token of its output; no phrase token written before it decodes to
\* length 0; decompression returns at the first length code that decodes to
\* 0, with the bytes restored so far and nothing read past that code.
C33_TerminatorLast ==
    [][/\ (Compressing /\ pc' = "compress_ret" /\ cres' >= 0)
           => Emitted(CompressedBytes',
                      lz77_cstream_get_processed_bits(compressed),
                      TerminatorBits)
       /\ PhraseNext
           => ~(/\ DecodedAs(original, NextToken).consume > 0
                /\ DecodedAs(original, NextToken).value = 0)
       /\ AtZeroLength
           => /\ pc' = "decompress_ret"
              /\ dres' = restored.processed_bytes
              /\ restored'.processed_bytes = restored.processed_bytes
              /\ cin'.processed_bits = cin.processed_bits + MAX_CODE_BITS]_vars

\* ---------------------------------------------------------------------
\* The sizes set up by ustream_open.

\* ustream_open has returned.
Opened == call.fn = "ustream_open" /\ call.step = "done"

\* The bit-width of x: 1 + floor(log2(max(1, x))).
BitWidth(x) ==
    CHOOSE k \in 1..(PeekBits + 1) :
        Pow2(k - 1) <= Max(1, x) /\ Max(1, x) < Pow2(k)

PhraseLengths(enc) ==
    { n \in CodeValues(enc) : n # 0 }

\* The bits of a phrase token of length n of the stream u: the type bit, the
\* offset and the length code.
PhraseBits(u, n) ==
    LZ77_TYPE_BITS + u.window_nbits + tinyhuff_encode(u.length_encoder, n).nbits

\* C36: for every valid window and look-ahead and every phrase length n from
\* min_len to L, the phrase token has no more bits than the n symbol tokens
\* it replaces: 1 + wbits + codebits(n) <= 9 * n.
C36_PhraseNoLonger ==
    Opened =>
        \A n \in PhraseLengths(call.u.length_encoder) :
            /\ call.u.length_encoder.min_value <= n
            /\ n <= call.L
            /\ PhraseBits(call.u, n) <= LZ77_SYMBOL_BITS * n

C36_Witness ==
    /\ Opened
    /\ call.u.window_nbits = 5
    /\ call.u.length_encoder.min_value = 1
    /\ 1 \in PhraseLengths(call.u.length_encoder)
    /\ PhraseBits(call.u, 1) = LZ77_SYMBOL_BITS - 1

\* The tree of the stream u after its first symbol: slot 0 is the real root,
\* the larger child of the sentinel.
FirstTree(u) == SeedTree(u.tree, u.window_maxsize)

\* C37: for every valid window size the index of the sentinel, W, is not the
\* marker UNUSED, so the real root, whose parent is the sentinel, counts as
\* linked and lz77_tree_delete_node takes it out of the tree.
C37_SentinelNotUnused ==
    Opened =>
        /\ call.u.window_maxsize = call.W
        /\ call.W # UNUSED
        /\ FirstTree(call.u)[call.W].larger = 0
        /\ FirstTree(call.u)[0].parent = call.W
        /\ FirstTree(call.u)[0].parent # UNUSED
        /\ lz77_tree_delete_node(FirstTree(call.u), 0)[call.W].larger = UNUSED

\* ---------------------------------------------------------------------
\* The links of the tree.

\* Every child of the slot s is a slot of the array whose parent is s.
OwnsChildren(tree, W, s) ==
    \A c \in {tree[s].smaller, tree[s].larger} :
        c # UNUSED => (c \in 0..(W - 1) /\ tree[c].parent = s)

\* Following parent from the slot n reaches the sentinel W.
RECURSIVE ReachesSentinel(_, _, _, _)
ReachesSentinel(tree, W, n, fuel) ==
    IF n = W THEN TRUE
    ELSE IF fuel = 0 \/ n \notin 0..(W - 1) THEN FALSE
    ELSE ReachesSentinel(tree, W, tree[n].parent, fuel - 1)

\* The slot i, which has a parent, is the smaller or the larger child of it,
\* not both, owns its children and hangs from the sentinel.
SlotLinked(tree, W, i) ==
    /\ tree[i].parent \in 0..W
    /\ (tree[tree[i].parent].smaller = i) # (tree[tree[i].parent].larger = i)
    /\ OwnsChildren(tree, W, i)
    /\ ReachesSentinel(tree, W, i, W + 1)

LinksConsistent(u, tree) ==
    /\ \A i \in 0..(u.window_maxsize - 1) :
           tree[i].parent # UNUSED => SlotLinked(tree, u.window_maxsize, i)
    /\ OwnsChildren(tree, u.window_maxsize, u.window_maxsize)
    /\ NodeCount(tree, tree[u.window_maxsize].larger, u.window_maxsize + 1)
           = Cardinality(Linked(u, tree))

\* The asserts of lz77_tree_contract_node(tree, old, new).
ContractChecks(tree, old, new) ==
    /\ old # UNUSED
    /\ new # old
    /\ tree[tree[old].parent].larger = old \/ tree[tree[old].parent].smaller = old
    /\ tree[old].larger = new \/ tree[old].smaller = new
    /\ tree[old].larger = UNUSED \/ tree[old].smaller = UNUSED
    /\ new = UNUSED \/ tree[new].parent = old

\* The asserts of lz77_tree_replace_node(tree, old, new).
ReplaceChecks(tree, old, new) ==
    /\ old # UNUSED
    /\ new # UNUSED
    /\ new # old
    /\ tree[new].parent = UNUSED

\* The asserts met by lz77_tree_delete_node(tree, index) hold.
RECURSIVE DeleteChecks(_, _)
DeleteChecks(tree, index) ==
    IF tree[index].parent = UNUSED THEN TRUE
    ELSE IF tree[index].smaller # UNUSED /\ tree[index].larger # UNUSED
    THEN /\ DeleteChecks(tree, lz77_tree_find_next_node(tree, index))
         /\ ReplaceChecks(
                lz77_tree_delete_node(tree, lz77_tree_find_next_node(tree, index)),
                index, lz77_tree_find_next_node(tree, index))
    ELSE IF tree[index].smaller # UNUSED
    THEN ContractChecks(tree, index, tree[index].smaller)
    ELSE ContractChecks(tree, index, tree[index].larger)

\* The tree has consistent links, and so has it after the deletion of any
\* slot, which meets no failing assert (deletions tried for the windows of
\* up to RotW slots).
TreeSound(u, tree) ==
    /\ LinksConsistent(u, tree)
    /\ u.window_maxsize <= RotW =>
           \A i \in 0..(u.window_maxsize - 1) :
               /\ DeleteChecks(tree, i)
               /\ LinksConsistent(u, lz77_tree_delete_node(tree, i))

\* The trees of the loop of ustream_find_and_advance, from its pass i on:
\* after the deletion of the next position, after the refill of the buffer
\* and its rotation of the tree, after the search that adds the position.
RECURSIVE LoopLinks(_, _, _)
LoopLinksAdded(s1, fa, i, count) ==
    /\ (i < count - 1 /\ ~s1.err /\ s1.u.lookahead_currsize > 0)
           => TreeSound(s1.u, fa.tree)
    /\ LoopLinks(AddPosition(s1, fa, i, count), i + 1, count)

LoopLinksSlid(s1, i, count) ==
    /\ ~s1.err => TreeSound(s1.u, s1.u.tree)
    /\ LoopLinksAdded(s1, lz77_find_and_add(s1.u, s1.u.lookahead % s1.u.window_maxsize),
                      i, count)

LoopLinksDropped(st, u1, i, count) ==
    /\ TreeSound(u1, u1.tree)
    /\ LoopLinksSlid(KeepLookahead(st, SlideWindow(u1)), i, count)

LoopLinks(st, i, count) ==
    IF i >= count \/ st.err THEN TRUE
    ELSE LoopLinksDropped(st, DropOldest(st.u, i, count), i, count)

LinksOfToken(u, fa, found) ==
    /\ TreeSound(u, fa.tree)
    /\ LoopLinks([u |-> [u EXCEPT !.tree = fa.tree], rfd |-> rfd,
                  err |-> FALSE, oob |-> fa.oob],
                 0, IF found = 0 THEN 1 ELSE found)

\* C38: during compression the links of the tree are consistent after every
\* tree operation: a slot with a parent is exactly one child of that parent,
\* a child of a linked slot has that slot for parent, no slot is met twice
\* from the sentinel, the parents of a linked slot lead to the sentinel; the
\* asserts of lz77_tree_contract_node and lz77_tree_replace_node hold.
C38_TreeLinksConsistent ==
    /\ Boundary => TreeSound(original, original.tree)
    /\ Searching => LinksOfToken(original, FirstSearch,
                                 EncodableLength(original, FirstSearch))

\* The stream of the compression is the one WrappedStream describes: the
\* input is B A A A ..., its first W bytes are consumed.
Wrapped ==
    /\ pc = "compress_loop" /\ scn.usrc = "mem"
    /\ Len(original.data) >= original.window_maxsize
    /\ original.data = WrapInput(Len(original.data))
    /\ original.processed_bytes = original.window_maxsize

\* The tree WrappedTree gives is the tree the compression has built.
WrappedAsCompressed ==
    Wrapped =>
        /\ original.tree = WrappedTree(original.window_maxsize)
        /\ original.window = 0
        /\ original.window_currsize = original.window_maxsize
        /\ original.lookahead = original.window_maxsize

\* lz77_find_and_add has returned.
SearchDone == call.fn = "lz77_find_and_add" /\ call.step = "done"

\* C38, for every valid window: the links of the tree are consistent after
\* the lz77_find_and_add that searches the first slot again once the window
\* is full.
C38_LinksAfterWrap ==
    SearchDone => LinksConsistent(call.u, call.u.tree)

\* ---------------------------------------------------------------------
\* The accesses of lz77_find_and_add.

\* The visit of the slot test: it is a slot of the array, the slot of the
\* position k of the current window, and the bytes compared, up to the first
\* that differs, are valid data of the buffer.
VisitInBounds(u, test, k, i) ==
    /\ test \in 0..(u.window_maxsize - 1)
    /\ k \in 0..(u.window_currsize - 1)
    /\ SlotOf(u, k) = test
    /\ u.lookahead >= 0 /\ u.window >= 0
    /\ u.lookahead + Min(i, u.lookahead_currsize - 1) < u.end
    /\ u.window + k + Min(i, u.lookahead_currsize - 1) < u.end
    /\ u.end <= Len(u.data)

\* Every visit of the while (1) loop of lz77_find_and_add from the slot test
\* on is in bounds, and every link followed leads to a slot of the array.
RECURSIVE VisitsInBounds(_, _, _, _, _)
VisitsFrom(u, tree, curr, test, longest, k, i) ==
    /\ VisitInBounds(u, test, k, i)
    /\ \/ i > longest /\ i = u.lookahead_currsize
       \/ LET islarger == ByteAt(u.data, u.lookahead + i)
                              > ByteAt(u.data, u.window + k + i)
              child == IF islarger THEN tree[test].larger ELSE tree[test].smaller
              tdel == IF tree[curr].parent # UNUSED
                      THEN lz77_tree_delete_node(tree, curr) ELSE tree
              child2 == IF islarger THEN tdel[test].larger ELSE tdel[test].smaller
          IN  IF child # UNUSED
              THEN VisitsInBounds(u, tree, curr, child, Max(i, longest))
              ELSE \/ test = curr
                   \/ child2 = UNUSED
                   \/ VisitsInBounds(u, tdel, curr, child2, Max(i, longest))

VisitsInBounds(u, tree, curr, test, longest) ==
    /\ test \in 0..(u.window_maxsize - 1)
    /\ VisitsFrom(u, tree, curr, test, longest,
                  (test - (u.window % u.window_maxsize)) % u.window_maxsize,
                  MatchFrom(u.data, u.lookahead,
                            u.window + ((test - (u.window % u.window_maxsize))
                                            % u.window_maxsize),
                            u.lookahead_currsize, 0))

\* lz77_find_and_add(u, curr) starts from a real root and stays in bounds.
SearchInBounds(u, curr) ==
    /\ curr \in 0..(u.window_maxsize - 1)
    /\ u.tree[u.window_maxsize].larger # UNUSED
    /\ u.lookahead_currsize > 0
    /\ VisitsInBounds(u, u.tree, curr, u.tree[u.window_maxsize].larger, 0)
    /\ ~lz77_find_and_add(u, curr).oob

\* The searches of the loop of ustream_find_and_advance, from its pass i on.
RECURSIVE LoopVisits(_, _, _)
LoopVisitAt(s1, i, count) ==
    /\ (i < count - 1 /\ ~s1.err /\ s1.u.lookahead_currsize > 0)
           => SearchInBounds(s1.u, s1.u.lookahead % s1.u.window_maxsize)
    /\ LoopVisits(AddPosition(s1,
                      lz77_find_and_add(s1.u, s1.u.lookahead % s1.u.window_maxsize),
                      i, count),
                  i + 1, count)

LoopVisits(st, i, count) ==
    IF i >= count \/ st.err THEN TRUE
    ELSE LoopVisitAt(KeepLookahead(st, SlideWindow(DropOldest(st.u, i, count))),
                     i, count)

VisitsOfToken(u, fa, found) ==
    LoopVisits([u |-> [u EXCEPT !.tree = fa.tree], rfd |-> rfd,
                err |-> FALSE, oob |-> fa.oob],
               0, IF found = 0 THEN 1 ELSE found)

\* C39: every call of lz77_find_and_add finds a real root below the sentinel,
\* dereferences slots 0..W only, visits slots of positions of the current
\* window and compares bytes of the valid data [0, end) only.
C39_SearchInBounds ==
    Searching =>
        /\ SearchInBounds(original, original.lookahead % original.window_maxsize)
        /\ VisitsOfToken(original, FirstSearch,
                         EncodableLength(original, FirstSearch))

\* A search on a full window that goes below the root.
C39_Witness ==
    /\ Searching
    /\ original.window_currsize = original.window_maxsize
    /\ original.window > 0
    /\ SearchInBounds(original, original.lookahead % original.window_maxsize)
    /\ LET root == original.tree[original.window_maxsize].larger
       IN  /\ original.tree[root].smaller # UNUSED
           /\ original.tree[root].larger # UNUSED
           /\ FirstSearch.longest < original.lookahead_currsize

\* ---------------------------------------------------------------------
\* The tree of a window of 65535 bytes (C37) once the window has wrapped.

\* ustream_find_and_advance is about to search the window of call.u.
AdvanceNext ==
    /\ call.fn = "ustream_find_and_advance" /\ call.step = "advance"
    /\ call.u.lookahead_currsize > 0 /\ call.u.window_currsize > 0

\* ustream_find_and_advance has returned a token.
AdvanceDone == call.fn = "ustream_find_and_advance" /\ call.tokens > 0

\* n is the longest common prefix of the look-ahead of u with a position of
\* its window.
LongestIs(u, n) ==
    /\ \A k \in 0..(u.window_currsize - 1) :
          MatchFrom(u.data, u.lookahead, u.window + k, u.lookahead_currsize, 0) <= n
    /\ n > 0 =>
          \E k \in 0..(u.window_currsize - 1) :
             MatchFrom(u.data, u.lookahead, u.window + k, u.lookahead_currsize, 0) = n

\* C22, for the windows of 65534 and 65535 bytes: the search that produces
\* a token returns the longest common prefix of the look-ahead with any
\* position of the window.
C22_LongestAfterWrap ==
    AdvanceNext =>
        LongestIs(call.u,
                  lz77_find_and_add(call.u,
                      call.u.lookahead % call.u.window_maxsize).longest)

\* The slots of the tree that hold a link.
Occupied(tree) == { i \in DOMAIN tree : tree[i] # UnusedNode }

\* The slots linked from the sentinel; no path without a repeated slot is
\* longer than the number of slots that hold a link.
Reached(u) ==
    Subtree(u.tree, u.tree[u.window_maxsize].larger, Cardinality(Occupied(u.tree)))

\* IsSearchTree over the slots in reach, for the keys compared on the bytes
\* both have.
OrderedInReach(u, top, fuel) ==
    \A x \in Subtree(u.tree, u.tree[u.window_maxsize].larger, fuel) :
        /\ \A m \in Subtree(u.tree, u.tree[x].smaller, fuel) :
               KeyOrder(u, PosOf(u, top, m), PosOf(u, top, x), FALSE)
        /\ \A m \in Subtree(u.tree, u.tree[x].larger, fuel) :
               KeyOrder(u, PosOf(u, top, x), PosOf(u, top, m), FALSE)

\* C23, for the windows of 65534 and 65535 bytes: after the
\* lz77_find_and_add of a token the slots linked from the sentinel form a
\* binary search tree under the order of their keys.
C23_OrderAfterWrap ==
    AdvanceDone =>
        \A fuel \in {Cardinality(Occupied(call.u.tree))} :
            OrderedInReach(call.u, call.u.lookahead - 1, fuel)

\* The window position at offset k is the position of a slot of linked, or
\* has the key of a later position that is.
RepresentedIn(u, k, linked) ==
    \E s \in linked :
        /\ (s - u.window) % u.window_maxsize >= k
        /\ \/ (s - u.window) % u.window_maxsize = k
           \/ MergedKeys(u, u.window + k,
                         u.window + ((s - u.window) % u.window_maxsize),
                         KeyDiff(u, u.window + k,
                                 u.window + ((s - u.window) % u.window_maxsize), 0))

\* C24, for the windows of 65534 and 65535 bytes: at a token boundary every
\* window position is linked or has the key of a later window position that
\* is linked.
C24_WindowAfterWrap ==
    AdvanceDone =>
        \A linked \in {Reached(call.u)} :
            \A k \in 0..(call.u.window_currsize - 1) :
                RepresentedIn(call.u, k, linked)

\* C25, for every valid window: when the look-ahead that follows the first
\* W bytes of B A A A ... matches the position of a linked slot on all its
\* bytes, the new slot takes the parent and the children of that slot, which
\* is unlinked.
C25_TakenOverAfterWrap ==
    (SearchDone /\ call.longest = call.u.lookahead_currsize) =>
        TookOver(lz77_tree_delete_node(WrappedTree(call.u.window_maxsize),
                     call.u.lookahead % call.u.window_maxsize),
                 call.u.tree, MatchedSlot(call.u, call),
                 call.u.lookahead % call.u.window_maxsize,
                 call.u.window_maxsize)

====
